---- MODULE Spec2Model ----
(***************************************************************************)
(* A model of the IntelMesh backend: the in-memory ThreatIntelStore        *)
(* (store.py), the feed sync handler and feed adapters (main.py,           *)
(* threat_feeds.py) and the query translator (query_parser.py).            *)
(***************************************************************************)
EXTENDS Integers, Sequences, FiniteSets, TLC

(***************************************************************************)
(* Bounds of the model.                                                    *)
(***************************************************************************)
\* number of add_item calls in a run; caps the id / timestamp counter
MaxAdds == 3
\* number of update_feed_iocs / update_feed_cves calls in a run
MaxFeedUpdates == 4
\* largest limit argument of search_feeds and of a feed sync
MaxLimit == 2
\* largest number of sources in feed_iocs when searching
MaxSources == 3
\* largest number of records in one stored snapshot when searching
MaxSnapshot == 2
\* largest number of lines / entries in a feed payload
MaxRows == 3
\* largest number of source names in one sync request
MaxRequest == 2
\* fetches a series of syncs makes before the model stops starting syncs
MaxSyncFetches == 3
\* tokens of a query handed to parse_query
MaxTokens == 3
\* documents handed to filter_items
MaxFilterDocs == 2

(***************************************************************************)
(* Values.                                                                 *)
(***************************************************************************)
\* dict.get() of a missing key, Python's None
None == "<None>"

\* Python truthiness of an optional string: None and '' are falsy
Truthy(s) == s # None /\ s # ""

SeqToSet(s) == {s[i] : i \in 1..Len(s)}

\* the 'extracted' dictionaries documents arrive with (ExtractedEntities.to_dict)
ExtEmpty ==
  [cves |-> <<>>, ips |-> <<>>, domains |-> <<>>, urls |-> <<>>, hashes |-> <<>>]
ExtA ==
  [cves |-> <<"CVE-2021-44228">>,
   ips |-> <<"185.220.101.5">>,
   domains |-> <<"evil.com">>,
   urls |-> <<"http://evil.com/a.php">>,
   hashes |-> <<[type |-> "md5", value |-> "h32a"]>>]
ExtB ==
  [cves |-> <<"CVE-2021-44228", "CVE-2025-1234">>,
   ips |-> <<"185.220.101.5", "10.0.0.1">>,
   domains |-> <<>>,
   urls |-> <<"http://evil.com/a.php">>,
   hashes |-> <<[type |-> "sha256", value |-> "h64b"], [type |-> "md5", value |-> "h32a"]>>]
ExtProfiles == {ExtEmpty, ExtA, ExtB}

DocUrls == {"", "u1", "u2"}
DocTitles == {"t1", "t2"}
DocSources == {"bleepingcomputer", "pdf"}

\* documents as handed to add_item by sync_news / upload_pdfs: no id, no added_at.
\* DedupDocs vary the fields the duplicate scan reads, StatsDocs the extracted
\* entities get_stats reads (no url, as an upload_pdfs item).
DedupDocs == [url : DocUrls, title : DocTitles, source : DocSources, ext : {ExtEmpty}]
StatsDocs == [url : {None}, title : DocTitles, source : DocSources, ext : ExtProfiles]

\* identifier generated by uuid4 for the n-th call: fresh each time
GenId(n) == <<"gen", n>>

VARIABLES
  items,              \* ThreatIntelStore.items
  id_index,           \* ThreatIntelStore._id_index
  feed_iocs,          \* ThreatIntelStore.feed_iocs
  feed_cves,          \* ThreatIntelStore.feed_cves
  feed_last_updated,  \* ThreatIntelStore.feed_last_updated
  clock,              \* source of uuid4 identifiers and of datetime.now
  last,               \* the last call made and what it returned
  net,                \* the feed an adapter is run on and what the network answers
  sync,               \* the sync_feeds request in progress and its results so far
  raw_query,          \* the query handed to parse_query, as tokens
  parsed,             \* the ParsedQuery handed to filter_items
  news,               \* the sync_news requests in flight, by request number
  doc_text            \* the text handed to the extractors, as its words

vars == <<items, id_index, feed_iocs, feed_cves, feed_last_updated, clock, last,
          net, sync, raw_query, parsed, news, doc_text>>

\* the variables the Store methods do not touch
others == <<net, sync, raw_query, parsed, news, doc_text>>

NoCall == [op |-> "none"]

\* ParsedQuery(): every field at its default
ParsedQuery ==
  [query_type |-> None, keywords |-> <<>>, cve_id |-> None, time_range |-> None,
   source |-> None, entity_type |-> None, raw_query |-> ""]
NoRequest == [feed |-> "none"]
\* no sync_news request has been made
NoNews == <<>>
NoText == <<>>
Idle ==
  [pc |-> "idle", sources |-> <<>>, limit |-> 1, pos |-> 1,
   synced_sources |-> <<>>, errors |-> <<>>, log |-> <<>>]

\* what an add_item call keeps of the call made just before it
PrevOf(l) ==
  IF l.op = "add_item" THEN [op |-> "add_item", arg |-> l.arg, ret |-> l.ret]
  ELSE [op |-> l.op]

(***************************************************************************)
(* store.py: documents                                                     *)
(***************************************************************************)
\* a duplicate test that forgets the url rule
IsDuplicateOf_KeyOnly(item, existing) ==
  item.title = existing.title /\ item.source = existing.source

\* a duplicate test that forgets the (title, source) rule
IsDuplicateOf_UrlOnly(item, existing) ==
  Truthy(item.url) /\ existing.url = item.url

\* the two duplicate tests add_item makes against one existing document
IsDuplicateOf(item, existing) ==
  \/ Truthy(item.url) /\ existing.url = item.url
  \/ item.title = existing.title /\ item.source = existing.source

\* index of the first existing document the scan returns on, 0 if it runs through
FirstDuplicate(its, item) ==
  IF \E i \in 1..Len(its) : IsDuplicateOf(item, its[i])
  THEN CHOOSE i \in 1..Len(its) :
         /\ IsDuplicateOf(item, its[i])
         /\ \A j \in 1..(i - 1) : ~IsDuplicateOf(item, its[j])
  ELSE 0

\* an add_item that replaces the stored duplicate by the new document
AddItemOp_Replace(st, doc) ==
  LET item == [f \in DOMAIN doc \cup {"id", "added_at"} |->
                 IF f = "id" THEN GenId(st.clock)
                 ELSE IF f = "added_at" THEN st.clock
                 ELSE doc[f]]
      k == FirstDuplicate(st.items, item)
      kept == IF k = 0 THEN st.items
              ELSE SubSeq(st.items, 1, k - 1) \o SubSeq(st.items, k + 1, Len(st.items))
  IN [items |-> Append(kept, item),
      id_index |-> [i \in {kept[j].id : j \in 1..Len(kept)} \cup {item.id} |->
                      IF i = item.id THEN item ELSE st.id_index[i]],
      clock |-> st.clock + 1, ret |-> item.id]

\* add_item on a store value st = [items, id_index, clock]; yields the store
\* after the call and the identifier returned
AddItemOp(st, doc) ==
  LET item == [f \in DOMAIN doc \cup {"id", "added_at"} |->
                 IF f \in DOMAIN doc THEN doc[f]          \* 'id' / 'added_at' in item
                 ELSE IF f = "id" THEN GenId(st.clock)
                 ELSE st.clock]
      k == FirstDuplicate(st.items, item)
  IN IF k # 0
     THEN [items |-> st.items, id_index |-> st.id_index,
           clock |-> st.clock + 1, ret |-> st.items[k].id]
     ELSE [items |-> Append(st.items, item),
           id_index |-> [i \in DOMAIN st.id_index \cup {item.id} |->
                           IF i = item.id THEN item ELSE st.id_index[i]],
           clock |-> st.clock + 1, ret |-> item.id]

Store == [items |-> items, id_index |-> id_index, clock |-> clock]

AddItem(doc) ==
  /\ clock < MaxAdds
  /\ LET r == AddItemOp(Store, doc)
     IN /\ items' = r.items
        /\ id_index' = r.id_index
        /\ clock' = r.clock
        /\ last' = [op |-> "add_item", arg |-> doc, ret |-> r.ret,
                    count_before |-> Len(items), prev |-> PrevOf(last)]
  /\ UNCHANGED <<feed_iocs, feed_cves, feed_last_updated>>
  /\ UNCHANGED others

RECURSIVE AddItemsOp(_, _)
AddItemsOp(st, docs) ==
  IF docs = <<>>
  THEN [items |-> st.items, id_index |-> st.id_index, clock |-> st.clock, ret |-> <<>>]
  ELSE LET r == AddItemOp(st, Head(docs))
           rest == AddItemsOp([items |-> r.items, id_index |-> r.id_index,
                               clock |-> r.clock], Tail(docs))
       IN [items |-> rest.items, id_index |-> rest.id_index, clock |-> rest.clock,
           ret |-> <<r.ret>> \o rest.ret]

AddItems(docs) ==
  /\ clock + Len(docs) <= MaxAdds
  /\ LET r == AddItemsOp(Store, docs)
     IN /\ items' = r.items
        /\ id_index' = r.id_index
        /\ clock' = r.clock
        /\ last' = [op |-> "add_items", arg |-> docs, ret |-> r.ret,
                    count_before |-> Len(items)]
  /\ UNCHANGED <<feed_iocs, feed_cves, feed_last_updated>>
  /\ UNCHANGED others

Clear ==
  /\ items # <<>>
  /\ items' = <<>>
  /\ id_index' = <<>>
  /\ last' = [op |-> "clear", removed |-> Len(items)]
  /\ UNCHANGED <<feed_iocs, feed_cves, feed_last_updated, clock>>
  /\ UNCHANGED others

Take(s, n) == SubSeq(s, 1, IF Len(s) <= n THEN Len(s) ELSE n)

\* an insertion that puts a record before the records of equal key
RECURSIVE InsertDesc_Unstable(_, _)
InsertDesc_Unstable(sorted, x) ==
  IF sorted = <<>> THEN <<x>>
  ELSE IF Head(sorted).key > x.key
    THEN <<Head(sorted)>> \o InsertDesc_Unstable(Tail(sorted), x)
  ELSE <<x>> \o sorted

\* sorted(recs, key = key, reverse = True) on records carrying their key: a
\* stable sort, equal keys keep their order
RECURSIVE InsertDesc(_, _)
InsertDesc(sorted, x) ==
  IF sorted = <<>> THEN <<x>>
  ELSE IF Head(sorted).key >= x.key THEN <<Head(sorted)>> \o InsertDesc(Tail(sorted), x)
  ELSE <<x>> \o sorted

RECURSIVE SortDesc(_)
SortDesc(recs) ==
  IF recs = <<>> THEN <<>>
  ELSE InsertDesc(SortDesc(SubSeq(recs, 1, Len(recs) - 1)), recs[Len(recs)])

\* collections.Counter: the elements with their counts, in the order in which
\* they were first counted
CounterAdd(counter, elem) ==
  IF \E k \in 1..Len(counter) : counter[k].elem = elem
  THEN [k \in 1..Len(counter) |->
          IF counter[k].elem = elem
          THEN [elem |-> elem, count |-> counter[k].count + 1] ELSE counter[k]]
  ELSE Append(counter, [elem |-> elem, count |-> 1])

\* Counter.update(list): one count for every element of the list, in order
RECURSIVE CounterUpdate(_, _)
CounterUpdate(counter, elems) ==
  IF elems = <<>> THEN counter
  ELSE CounterUpdate(CounterAdd(counter, Head(elems)), Tail(elems))

\* a most_common that returns the elements in the order they were counted in
most_common_Unsorted(counter, n) == Take(counter, n)

\* Counter.most_common(n): heapq.nlargest(n, items, key = count), which is
\* sorted(items, key = count, reverse = True)[:n]
most_common(counter, n) ==
  LET keyed == SortDesc([k \in 1..Len(counter) |->
                           [key |-> counter[k].count, val |-> counter[k]]])
  IN Take([k \in 1..Len(keyed) |-> keyed[k].val], n)

\* the length of the top lists of get_stats
TopN == 10

\* cve_counter after the loop of get_stats
RECURSIVE CveCounter(_, _)
CveCounter(its, counter) ==
  IF its = <<>> THEN counter
  ELSE CveCounter(Tail(its), CounterUpdate(counter, Head(its).ext.cves))

\* extracted.get(field, []): the list, empty when the dictionary has no such key
ExtGet(extracted, field) ==
  IF field \in DOMAIN extracted THEN extracted[field] ELSE <<>>

\* threat_counter after the loop of get_stats
RECURSIVE ThreatCounter(_, _)
ThreatCounter(its, counter) ==
  IF its = <<>> THEN counter
  ELSE ThreatCounter(Tail(its), CounterUpdate(counter, ExtGet(Head(its).ext, "threats")))

\* the accumulation loop of get_stats over the documents, in insertion order
RECURSIVE StatsLoop(_, _)
StatsLoop(its, acc) ==
  IF its = <<>> THEN acc
  ELSE LET extracted == Head(its).ext
       IN StatsLoop(Tail(its),
            [all_cves |-> acc.all_cves \cup SeqToSet(extracted.cves),
             all_ips |-> acc.all_ips \cup SeqToSet(extracted.ips),
             all_domains |-> acc.all_domains \cup SeqToSet(extracted.domains),
             all_urls |-> acc.all_urls \cup SeqToSet(extracted.urls),
             all_hashes |-> acc.all_hashes \cup
                            {extracted.hashes[i].value : i \in 1..Len(extracted.hashes)}])

RECURSIVE PerDocIocs(_)
PerDocIocs(its) ==
  IF its = <<>> THEN 0
  ELSE Len(Head(its).ext.ips) + Len(Head(its).ext.domains)
       + Len(Head(its).ext.hashes) + Len(Head(its).ext.urls) + PerDocIocs(Tail(its))

\* a get_stats that adds up the per-document indicator counts
GetStatsOp_PerDoc(its) ==
  LET acc == StatsLoop(its, [all_cves |-> {}, all_ips |-> {}, all_domains |-> {},
                             all_urls |-> {}, all_hashes |-> {}])
  IN [total_items |-> Len(its),
      total_cves |-> Cardinality(acc.all_cves),
      total_iocs |-> PerDocIocs(its),
      ioc_breakdown |-> [ips |-> Cardinality(acc.all_ips),
                         domains |-> Cardinality(acc.all_domains),
                         hashes |-> Cardinality(acc.all_hashes),
                         urls |-> Cardinality(acc.all_urls)]]

GetStatsOp(its) ==
  LET acc == StatsLoop(its, [all_cves |-> {}, all_ips |-> {}, all_domains |-> {},
                             all_urls |-> {}, all_hashes |-> {}])
  IN [total_items |-> Len(its),
      total_cves |-> Cardinality(acc.all_cves),
      total_iocs |-> Cardinality(acc.all_ips) + Cardinality(acc.all_domains)
                     + Cardinality(acc.all_hashes) + Cardinality(acc.all_urls),
      ioc_breakdown |-> [ips |-> Cardinality(acc.all_ips),
                         domains |-> Cardinality(acc.all_domains),
                         hashes |-> Cardinality(acc.all_hashes),
                         urls |-> Cardinality(acc.all_urls)],
      top_cves |-> most_common(CveCounter(its, <<>>), TopN),
      top_threats |-> most_common(ThreatCounter(its, <<>>), TopN)]

GetStats ==
  /\ last' = [op |-> "get_stats", ret |-> GetStatsOp(items)]
  /\ UNCHANGED <<items, id_index, feed_iocs, feed_cves, feed_last_updated, clock>>
  /\ UNCHANGED others

(***************************************************************************)
(* The document store under add_item, add_items, clear and get_stats.      *)
(***************************************************************************)
InitStore ==
  /\ items = <<>>
  /\ id_index = <<>>
  /\ feed_iocs = <<>>
  /\ feed_cves = <<>>
  /\ feed_last_updated = <<>>
  /\ clock = 0
  /\ last = NoCall
  /\ net = NoRequest
  /\ sync = Idle
  /\ raw_query = <<>>
  /\ parsed = ParsedQuery
  /\ news = NoNews
  /\ doc_text = NoText

NextStore ==
  \/ \E doc \in DedupDocs : AddItem(doc)
  \/ \E d1, d2 \in DedupDocs : AddItems(<<d1, d2>>)
  \/ Clear
  \/ GetStats

SpecStore == InitStore /\ [][NextStore]_vars

NextStats ==
  \/ \E doc \in StatsDocs : AddItem(doc)
  \/ \E d1, d2 \in StatsDocs : AddItems(<<d1, d2>>)
  \/ Clear
  \/ GetStats

SpecStats == InitStore /\ [][NextStats]_vars

\* documents naming many CVEs: twelve distinct identifiers over three
\* documents, some named by two of them
Cve(n) == "CVE-2024-" \o ToString(1000 + n)
TopExt(cves) == [cves |-> cves, ips |-> <<>>, domains |-> <<>>, urls |-> <<>>, hashes |-> <<>>]
TopDocs ==
  {[url |-> None, title |-> "advisory one", source |-> "bleepingcomputer",
    ext |-> TopExt([n \in 1..6 |-> Cve(n)])],
   [url |-> None, title |-> "advisory two", source |-> "bleepingcomputer",
    ext |-> TopExt([n \in 1..6 |-> Cve(n + 6)] \o <<Cve(3)>>)],
   [url |-> None, title |-> "advisory three", source |-> "pdf",
    ext |-> TopExt(<<Cve(12), Cve(1), Cve(3)>>)],
   [url |-> None, title |-> "release notes", source |-> "pdf", ext |-> TopExt(<<>>)]}

NextTop ==
  \/ \E doc \in TopDocs : AddItem(doc)
  \/ \E d1, d2 \in TopDocs : AddItems(<<d1, d2>>)
  \/ Clear
  \/ GetStats

SpecTop == InitStore /\ [][NextTop]_vars

\* documents that arrive with an identifier of the caller's, and without
\* (identifiers are pairs in the model: those of the caller, those of uuid4)
SuppliedIds == {<<"own", 1>>, <<"own", 2>>}
IdDocs ==
  [url : {None}, title : DocTitles, source : {"pdf"}, ext : {ExtEmpty}]
    \cup [url : {None}, title : DocTitles \cup {"t3"}, source : {"pdf"}, ext : {ExtEmpty},
         id : SuppliedIds]

(***************************************************************************)
(* threat_feeds.py: fetching                                               *)
(***************************************************************************)
\* What the network hands back for one GET: a transport failure, a non-2xx
\* status, or a 2xx response with a body.  A CSV or text body is its sequence
\* of lines, a JSON body is undecodable text or the decoded document.
HttpStatuses == {"ok", "network_error", "http_500"}

Response(status, body) == [status |-> status, body |-> body]

\* fetch_url: the body of a 2xx response; None (none = TRUE) on any exception,
\* raise_for_status included
fetch_url(resp) ==
  IF resp.status = "ok" THEN [none |-> FALSE, text |-> resp.body]
  ELSE [none |-> TRUE, text |-> resp.body]

\* JSON bodies: text json.loads rejects, or the decoded document.  A document
\* is a mapping or a list with its entries in order; {} and [] are falsy.
Undecodable == [kind |-> "undecodable", entries |-> <<>>]
JsonDict(entries) == [kind |-> "dict", entries |-> entries]
JsonList(entries) == [kind |-> "list", entries |-> entries]

\* fetch_json: the decoded document, None when there is no content or it does
\* not decode
fetch_json(resp) ==
  LET content == fetch_url(resp)
  IN IF content.none THEN [none |-> TRUE, data |-> content.text]
     ELSE IF content.text.kind = "undecodable" THEN [none |-> TRUE, data |-> content.text]
     ELSE [none |-> FALSE, data |-> content.text]

\* Python's "not data" on what fetch_json returned
Falsy(d) == d.none \/ d.data.entries = <<>>

(***************************************************************************)
(* threat_feeds.py: CSV adapters                                           *)
(***************************************************************************)
\* str.strip().strip('"') on the field values of the model: only the blank
\* field changes
Strip(s) == IF s = "  " THEN "" ELSE s

\* one line of a CSV body: a '#' comment, or the fields csv.reader splits it into
CommentLine == [comment |-> TRUE, cols |-> <<>>]
Row(cols) == [comment |-> FALSE, cols |-> cols]

\* the lines left after comment lines are filtered out
RECURSIVE SkipComments(_)
SkipComments(lines) ==
  IF lines = <<>> THEN <<>>
  ELSE IF Head(lines).comment THEN SkipComments(Tail(lines))
  ELSE <<Head(lines).cols>> \o SkipComments(Tail(lines))

Position(fieldnames, name) == CHOOSE k \in 1..Len(fieldnames) : fieldnames[k] = name

\* row.get(name, default) on a csv.DictReader row: DictReader fills the fields a
\* short row lacks with restval None, so the default is never used
RowGet(fieldnames, cols, name) ==
  LET k == Position(fieldnames, name)
  IN IF k <= Len(cols) THEN cols[k] ELSE None

ThreatfoxFields ==
  <<"first_seen_utc", "ioc_id", "ioc_value", "ioc_type", "threat_type",
    "fk_malware", "malware_alias", "malware_printable", "last_seen_utc",
    "confidence_level", "is_compromised", "reference", "tags", "anonymous", "reporter">>

\* the substring tests on the raw type field, for the type strings of the model
ClassifyIocType(raw) ==
  IF raw \in {"ip:port", "ip"} THEN "ip"
  ELSE IF raw = "domain" THEN "domain"
  ELSE IF raw = "url" THEN "url"
  ELSE IF raw \in {"md5_hash", "sha256_hash", "sha1_hash"} THEN "hash"
  ELSE "ip"

\* tags_str.split(',') with blanks dropped
SplitTags(s) ==
  IF s = "" THEN <<>>
  ELSE IF s = "c2,emotet" THEN <<"c2", "emotet">>
  ELSE <<s>>

\* int(): a one-element sequence holding the number, <<>> where it is left unset
ParseConfidence(s) ==
  IF s = "75" THEN <<75>>
  ELSE IF s = "100" THEN <<100>>
  ELSE IF s = "0" THEN <<0>>
  ELSE <<>>

IocRecord(id, type, value, threat, family, confidence, source, tags) ==
  [id |-> id, ioc_type |-> type, ioc_value |-> value, threat_type |-> threat,
   malware_family |-> family, confidence |-> confidence, source |-> source,
   tags |-> tags]

\* the fields fetch_threatfox reads with .strip() after the ioc_value test
ThreatfoxRead ==
  {"ioc_type", "tags", "malware_printable", "confidence_level", "ioc_id",
   "threat_type", "first_seen_utc", "last_seen_utc", "reference"}

ThreatfoxRecord(cols) ==
  LET get(name) == Strip(RowGet(ThreatfoxFields, cols, name))
      malware == get("malware_printable")
  IN IocRecord(get("ioc_id"), ClassifyIocType(get("ioc_type")), get("ioc_value"),
               get("threat_type"),
               IF malware \in {"Unknown malware", "None", ""} THEN None ELSE malware,
               ParseConfidence(get("confidence_level")), "threatfox",
               SplitTags(get("tags")))

\* the row loop of fetch_threatfox inside its try block: None.strip() on a
\* field a short row lacks raises AttributeError, which leaves the loop for the
\* except clause; the items collected so far are returned
RECURSIVE ThreatfoxLoop(_, _, _)
ThreatfoxLoop(rows, limit, acc) ==
  IF rows = <<>> \/ Len(acc) >= limit THEN acc
  ELSE LET cols == Head(rows)
       IN IF cols = <<>> THEN ThreatfoxLoop(Tail(rows), limit, acc)
          ELSE IF RowGet(ThreatfoxFields, cols, "ioc_value") = None THEN acc
          ELSE IF Strip(RowGet(ThreatfoxFields, cols, "ioc_value")) = ""
            THEN ThreatfoxLoop(Tail(rows), limit, acc)
          ELSE IF \E f \in ThreatfoxRead : RowGet(ThreatfoxFields, cols, f) = None
            THEN acc
          ELSE ThreatfoxLoop(Tail(rows), limit, Append(acc, ThreatfoxRecord(cols)))

\* an adapter's outcome: the records returned, or an exception raised out of it
Returned(recs) == [raised |-> FALSE, items |-> recs]
Raised == [raised |-> TRUE, items |-> <<>>]

fetch_threatfox(resp, limit) ==
  LET content == fetch_url(resp)
  IN IF content.none \/ content.text = <<>> THEN Returned(<<>>)
     ELSE Returned(ThreatfoxLoop(SkipComments(content.text), limit, <<>>))

MalwarebazaarFields ==
  <<"first_seen_utc", "sha256_hash", "md5_hash", "sha1_hash", "reporter",
    "file_name", "file_type_guess", "mime_type", "signature", "clamav",
    "vtpercent", "imphash", "ssdeep", "tlsh">>

\* the fields fetch_malwarebazaar reads with .strip() after the sha256 test
MalwarebazaarRead ==
  {"signature", "file_type_guess", "first_seen_utc", "md5_hash", "sha1_hash",
   "file_name", "mime_type", "reporter"}

Sha256A == "aaaaaaaaaaaaaaaaaaaaaaaaaaaaaaaaaaaaaaaaaaaaaaaaaaaaaaaaaaaaaaaa"
Sha256B == "bbbbbbbbbbbbbbbbbbbbbbbbbbbbbbbbbbbbbbbbbbbbbbbbbbbbbbbbbbbbbbbb"
Garbled30 == "cccccccccccccccccccccccccccccc"
\* 64 characters, none of them a hexadecimal digit
NonHex64 == "zzzzzzzzzzzzzzzzzzzzzzzzzzzzzzzzzzzzzzzzzzzzzzzzzzzzzzzzzzzzzzzz"

\* sha256[:12]
First12(h) ==
  IF h = Sha256A THEN "aaaaaaaaaaaa"
  ELSE IF h = Sha256B THEN "bbbbbbbbbbbb"
  ELSE IF h = NonHex64 THEN "zzzzzzzzzzzz"
  ELSE h

MalwarebazaarRecord(cols) ==
  LET get(name) == Strip(RowGet(MalwarebazaarFields, cols, name))
      sha256 == get("sha256_hash")
      signature == get("signature")
      file_type == get("file_type_guess")
  IN IocRecord(First12(sha256), "hash", sha256, "malware",
               IF signature # "" /\ signature # "n/a" THEN signature ELSE None,
               <<>>, "malwarebazaar",
               (IF signature # "" /\ signature # "n/a" THEN <<signature>> ELSE <<>>)
               \o (IF file_type # "" /\ file_type # "n/a" THEN <<file_type>> ELSE <<>>))

\* the row loop of fetch_malwarebazaar inside its try block
RECURSIVE MalwarebazaarLoop(_, _, _)
MalwarebazaarLoop(rows, limit, acc) ==
  IF rows = <<>> \/ Len(acc) >= limit THEN acc
  ELSE LET cols == Head(rows)
       IN IF cols = <<>> THEN MalwarebazaarLoop(Tail(rows), limit, acc)
          ELSE IF RowGet(MalwarebazaarFields, cols, "sha256_hash") = None THEN acc
          ELSE IF LET sha256 == Strip(RowGet(MalwarebazaarFields, cols, "sha256_hash"))
                  IN sha256 = "" \/ Len(sha256) # 64
            THEN MalwarebazaarLoop(Tail(rows), limit, acc)
          ELSE IF \E f \in MalwarebazaarRead : RowGet(MalwarebazaarFields, cols, f) = None
            THEN acc
          ELSE MalwarebazaarLoop(Tail(rows), limit, Append(acc, MalwarebazaarRecord(cols)))

fetch_malwarebazaar(resp, limit) ==
  LET content == fetch_url(resp)
  IN IF content.none \/ content.text = <<>> THEN Returned(<<>>)
     ELSE Returned(MalwarebazaarLoop(SkipComments(content.text), limit, <<>>))

(***************************************************************************)
(* threat_feeds.py: JSON adapters                                          *)
(***************************************************************************)
\* One value of the URLhaus mapping.  shape is "list" for the usual one-element
\* list, "bare" for a bare entry object, "emptylist" for [] and "string" for a
\* value that is no object at all.  tags is the entry's "tags" member: a list
\* (tagsKind "list"), null ("null") or a string ("string").
UrlhausValue(shape, url, threat, tagsKind, tags) ==
  [shape |-> shape, url |-> url, threat |-> threat, tagsKind |-> tagsKind, tags |-> tags]

UrlhausArchTags == {"32-bit", "64-bit", "elf", "exe", "mips", "arm", "x86"}

\* first tag that is non-empty and no architecture tag, None if there is none
RECURSIVE FirstFamilyTag(_)
FirstFamilyTag(tags) ==
  IF tags = <<>> THEN None
  ELSE IF Head(tags) # "" /\ Head(tags) \notin UrlhausArchTags THEN Head(tags)
  ELSE FirstFamilyTag(Tail(tags))

\* the loop of fetch_urlhaus over data.items(); each entry is handled in its
\* own try block.  For a "tags" member that is a string, tags holds its
\* characters, which the family loop then iterates.
RECURSIVE UrlhausLoop(_, _, _)
UrlhausLoop(entries, limit, acc) ==
  IF entries = <<>> \/ Len(acc) >= limit THEN acc
  ELSE LET url_id == Head(entries).id
           v == Head(entries).val
       IN IF v.shape \in {"emptylist", "string"}
            THEN UrlhausLoop(Tail(entries), limit, acc)         \* not a dict: continue
          ELSE IF v.tagsKind = "string" /\ Truthy(v.threat)
            THEN UrlhausLoop(Tail(entries), limit, acc)         \* str.append raises: continue
          ELSE LET base == IF v.tagsKind = "null" THEN <<>> ELSE v.tags
                   tags == IF Truthy(v.threat) THEN Append(base, v.threat) ELSE base
               IN UrlhausLoop(Tail(entries), limit,
                    Append(acc,
                      IocRecord(url_id, "url", IF v.url = None THEN "" ELSE v.url,
                                IF v.threat = None THEN "malware_download" ELSE v.threat,
                                FirstFamilyTag(tags), <<>>, "urlhaus", tags)))

\* fetch_urlhaus: a non-empty top-level list has no .items(), the
\* AttributeError is raised out of the adapter
fetch_urlhaus(resp, limit) ==
  LET data == fetch_json(resp)
  IN IF Falsy(data) THEN Returned(<<>>)
     ELSE IF data.data.kind # "dict" THEN Raised
     ELSE Returned(UrlhausLoop(data.data.entries, limit, <<>>))

\* VulnerabilityRecord, CVEFeedItem.to_dict
CveRecord(v) ==
  [cve_id |-> v.cveID, vendor |-> v.vendorProject, product |-> v.product,
   vulnerability_name |-> v.vulnerabilityName, date_added |-> v.dateAdded,
   known_ransomware |-> (v.knownRansomwareCampaignUse = "Known"),
   source |-> "cisa_kev"]

\* the loop of fetch_cisa_kev over data["vulnerabilities"]; an entry that is
\* no object (isObject FALSE) raises in its try block and is skipped
RECURSIVE CisaKevLoop(_, _)
CisaKevLoop(vulns, acc) ==
  IF vulns = <<>> THEN acc
  ELSE IF ~Head(vulns).isObject THEN CisaKevLoop(Tail(vulns), acc)
  ELSE CisaKevLoop(Tail(vulns), Append(acc, CveRecord(Head(vulns))))

\* fetch_cisa_kev on a catalog document [kind, entries, hasVulnerabilities]:
\* entries are the members of "vulnerabilities" of a mapping, or the elements
\* of a top-level list (hasVulnerabilities: the string is one of them)
fetch_cisa_kev(resp) ==
  LET data == fetch_json(resp)
  IN IF Falsy(data) \/ ~data.data.hasVulnerabilities THEN Returned(<<>>)
     ELSE IF data.data.kind # "dict" THEN Raised              \* list.get
     ELSE Returned(CisaKevLoop(data.data.entries, <<>>))

\* One element of the Feodo Tracker list: an object with its "ip_address" and
\* "malware" members (None when the member is missing), or a value that is no
\* object.
FeodoEntry(isObject, ip_address, malware) ==
  [isObject |-> isObject, ip_address |-> ip_address, malware |-> malware]

FeodoRecord(entry) ==
  LET ip == IF entry.ip_address = None THEN "" ELSE entry.ip_address
  IN IocRecord("feodo-" \o ip, "ip", ip, "botnet", entry.malware, <<>>, "feodotracker",
               <<IF entry.malware = None THEN "" ELSE entry.malware, "c2", "botnet">>)

\* the loop of fetch_feodotracker: every element gives a record, an element
\* without .get is passed over by the except clause
RECURSIVE FeodoLoop(_, _)
FeodoLoop(entries, acc) ==
  IF entries = <<>> THEN acc
  ELSE IF ~Head(entries).isObject THEN FeodoLoop(Tail(entries), acc)
  ELSE FeodoLoop(Tail(entries), Append(acc, FeodoRecord(Head(entries))))

\* fetch_feodotracker takes no limit; iterating a mapping yields its keys,
\* strings, each passed over
fetch_feodotracker(resp) ==
  LET data == fetch_json(resp)
  IN IF Falsy(data) THEN Returned(<<>>)
     ELSE IF data.data.kind = "dict" THEN Returned(<<>>)
     ELSE Returned(FeodoLoop(data.data.entries, <<>>))

(***************************************************************************)
(* store.py: feed data                                                     *)
(***************************************************************************)
\* feed_iocs and feed_cves are dicts; a dict keeps its keys in insertion order
\* and values() iterates in that order, so each is a sequence of
\* [source, items] entries with distinct sources.
DictHas(d, k) == \E i \in 1..Len(d) : d[i].source = k

\* d.get(k, [])
DictGet(d, k) ==
  IF DictHas(d, k) THEN d[CHOOSE i \in 1..Len(d) : d[i].source = k].items ELSE <<>>

\* an assignment that extends the stored list instead of replacing it
DictSet_Merge(d, k, v) ==
  IF DictHas(d, k)
  THEN [i \in 1..Len(d) |->
          IF d[i].source = k THEN [source |-> k, items |-> d[i].items \o v] ELSE d[i]]
  ELSE Append(d, [source |-> k, items |-> v])

\* d[k] = v
DictSet(d, k, v) ==
  IF DictHas(d, k)
  THEN [i \in 1..Len(d) |-> IF d[i].source = k THEN [source |-> k, items |-> v] ELSE d[i]]
  ELSE Append(d, [source |-> k, items |-> v])

DictKeys(d) == {d[i].source : i \in 1..Len(d)}

\* feed_last_updated[source] = now
Stamp(lu, source, now) ==
  [k \in DOMAIN lu \cup {source} |-> IF k = source THEN now ELSE lu[k]]

\* update_feed_iocs and update_feed_cves on the feed collections
\* fs = [feed_iocs, feed_cves, feed_last_updated, clock]; count is returned
UpdateFeedIocsOp(fs, source, its) ==
  [feed_iocs |-> DictSet(fs.feed_iocs, source, its),
   feed_cves |-> fs.feed_cves,
   feed_last_updated |-> Stamp(fs.feed_last_updated, source, fs.clock),
   clock |-> fs.clock + 1,
   count |-> Len(its)]

UpdateFeedCvesOp(fs, source, its) ==
  [feed_iocs |-> fs.feed_iocs,
   feed_cves |-> DictSet(fs.feed_cves, source, its),
   feed_last_updated |-> Stamp(fs.feed_last_updated, source, fs.clock),
   clock |-> fs.clock + 1,
   count |-> Len(its)]

Feeds ==
  [feed_iocs |-> feed_iocs, feed_cves |-> feed_cves,
   feed_last_updated |-> feed_last_updated, clock |-> clock]

UpdateFeedIocs(source, its) ==
  /\ clock < MaxFeedUpdates
  /\ LET r == UpdateFeedIocsOp(Feeds, source, its)
     IN /\ feed_iocs' = r.feed_iocs
        /\ feed_cves' = r.feed_cves
        /\ feed_last_updated' = r.feed_last_updated
        /\ clock' = r.clock
        /\ last' = [op |-> "update_feed_iocs", source |-> source, arg |-> its,
                    ret |-> r.count, replaced |-> DictGet(feed_iocs, source)]
  /\ UNCHANGED <<items, id_index>>
  /\ UNCHANGED others

UpdateFeedCves(source, its) ==
  /\ clock < MaxFeedUpdates
  /\ LET r == UpdateFeedCvesOp(Feeds, source, its)
     IN /\ feed_iocs' = r.feed_iocs
        /\ feed_cves' = r.feed_cves
        /\ feed_last_updated' = r.feed_last_updated
        /\ clock' = r.clock
        /\ last' = [op |-> "update_feed_cves", source |-> source, arg |-> its,
                    ret |-> r.count, replaced |-> DictGet(feed_cves, source)]
  /\ UNCHANGED <<items, id_index>>
  /\ UNCHANGED others

ClearFeeds ==
  /\ feed_iocs # <<>> \/ feed_cves # <<>>
  /\ feed_iocs' = <<>>
  /\ feed_cves' = <<>>
  /\ feed_last_updated' = <<>>
  /\ last' = [op |-> "clear_feeds"]
  /\ UNCHANGED <<items, id_index, clock>>
  /\ UNCHANGED others

\* canonical records as the adapters emit them
IocEvil == IocRecord("1", "domain", "evil.com", "botnet_cc", None, <<75>>, "threatfox", <<>>)
IocEmotet == IocRecord("2", "ip", "185.220.101.5:443", "botnet_cc", "Emotet", <<>>, "threatfox", <<"c2", "emotet">>)
IocPhish == IocRecord("u7", "url", "http://evil.com/a.php", "phishing", None, <<>>, "urlhaus", <<"evil">>)
CveLog4j ==
  [cve_id |-> "CVE-2021-44228", vendor |-> "Apache", product |-> "Log4j2",
   vulnerability_name |-> "Apache Log4j2 Remote Code Execution Vulnerability",
   date_added |-> "2021-12-10", known_ransomware |-> TRUE, source |-> "cisa_kev"]
CveEvil ==
  [cve_id |-> "CVE-2025-1234", vendor |-> "Evil Corp", product |-> "Gateway",
   vulnerability_name |-> "Gateway Authentication Bypass Vulnerability",
   date_added |-> "2025-02-01", known_ransomware |-> FALSE, source |-> "cisa_kev"]

\* snapshots and source names handed to update_feed_iocs / update_feed_cves
IocSnapshots == {<<>>, <<IocEvil>>, <<IocEmotet, IocPhish>>}
CveSnapshots == {<<>>, <<CveLog4j>>, <<CveEvil, CveLog4j>>}
IocSourceNames == {"threatfox", "urlhaus"}
CveSourceNames == {"cisa_kev"}
FeedSpecDocs == {d \in DedupDocs : d.url = "u1" /\ d.source = "pdf"}

(***************************************************************************)
(* The feed collections under update_feed_iocs, update_feed_cves and       *)
(* clear_feeds, next to a document collection under add_item.              *)
(***************************************************************************)
NextFeedStore ==
  \/ \E src \in IocSourceNames, its \in IocSnapshots : UpdateFeedIocs(src, its)
  \/ \E src \in CveSourceNames, its \in CveSnapshots : UpdateFeedCves(src, its)
  \/ ClearFeeds
  \/ \E doc \in FeedSpecDocs : AddItem(doc)

SpecFeedStore == InitStore /\ [][NextFeedStore]_vars

(***************************************************************************)
(* store.py: search_feeds                                                  *)
(***************************************************************************)
\* str.lower() on the strings of the model that have an upper-case letter
Lower(s) ==
  IF s = "Emotet" THEN "emotet"
  ELSE IF s = "IoCs" THEN "iocs"
  ELSE IF s = "CVEs" THEN "cves"
  ELSE IF s = "CVE" THEN "cve"
  ELSE IF s = "Emotet returns" THEN "emotet returns"
  ELSE IF s = "Emotet returns. Patch CVE-2021-44228 now."
    THEN "emotet returns. patch cve-2021-44228 now."
  ELSE IF s = "Patch Tuesday" THEN "patch tuesday"
  ELSE IF s = "Evil Corp" THEN "evil corp"
  ELSE IF s = "LockBit" THEN "lockbit"
  ELSE IF s = "Lazarus" THEN "lazarus"
  ELSE IF s = "Apache" THEN "apache"
  ELSE IF s = "Log4j2" THEN "log4j2"
  ELSE IF s = "Gateway" THEN "gateway"
  ELSE IF s = "CVE-2021-44228" THEN "cve-2021-44228"
  ELSE IF s = "CVE-2025-1234" THEN "cve-2025-1234"
  ELSE IF s = "Apache Log4j2 Remote Code Execution Vulnerability"
    THEN "apache log4j2 remote code execution vulnerability"
  ELSE IF s = "Gateway Authentication Bypass Vulnerability"
    THEN "gateway authentication bypass vulnerability"
  ELSE s

\* needle in hay, for lower-cased needles and hays of the model
Contains(hay, needle) ==
  \/ needle = ""
  \/ needle = "evil" /\ hay \in {"evil", "evil.com", "http://evil.com/a.php", "evil corp"}
  \/ needle = "emotet" /\ hay \in {"emotet", "emotet returns",
                                  "emotet returns. patch cve-2021-44228 now."}

\* query_lower in str(tags).lower(): a needle without quote, comma or blank
\* lies inside one tag
ContainsInTags(tags, needle) ==
  \/ needle = ""
  \/ \E i \in 1..Len(tags) : Contains(Lower(tags[i]), needle)

IocMatches(item, query_lower) ==
  \/ Contains(Lower(item.ioc_value), query_lower)
  \/ Contains(Lower(IF item.malware_family = None THEN "" ELSE item.malware_family),
              query_lower)
  \/ ContainsInTags(item.tags, query_lower)

CveMatches(item, query_lower) ==
  \/ Contains(Lower(item.cve_id), query_lower)
  \/ Contains(Lower(item.vulnerability_name), query_lower)
  \/ Contains(Lower(item.vendor), query_lower)
  \/ Contains(Lower(item.product), query_lower)

\* an inner loop that never breaks
RECURSIVE SearchIocsInSource_NoBreak(_, _, _, _)
SearchIocsInSource_NoBreak(its, query_lower, limit, acc) ==
  IF its = <<>> THEN acc
  ELSE IF IocMatches(Head(its), query_lower)
    THEN SearchIocsInSource_NoBreak(Tail(its), query_lower, limit, Append(acc, Head(its)))
  ELSE SearchIocsInSource_NoBreak(Tail(its), query_lower, limit, acc)

\* the inner loop over one source's records: break once the list holds limit
RECURSIVE SearchIocsInSource(_, _, _, _)
SearchIocsInSource(its, query_lower, limit, acc) ==
  IF its = <<>> THEN acc
  ELSE IF IocMatches(Head(its), query_lower)
    THEN IF Len(acc) + 1 >= limit THEN Append(acc, Head(its))
         ELSE SearchIocsInSource(Tail(its), query_lower, limit, Append(acc, Head(its)))
  ELSE SearchIocsInSource(Tail(its), query_lower, limit, acc)

\* the outer loop over feed_iocs.values(): it goes on to the next source
\* after the inner loop has broken
RECURSIVE SearchIocs(_, _, _, _)
SearchIocs(d, query_lower, limit, acc) ==
  IF d = <<>> THEN acc
  ELSE SearchIocs(Tail(d), query_lower, limit,
                  SearchIocsInSource(Head(d).items, query_lower, limit, acc))

RECURSIVE SearchCvesInSource(_, _, _, _)
SearchCvesInSource(its, query_lower, limit, acc) ==
  IF its = <<>> THEN acc
  ELSE IF CveMatches(Head(its), query_lower)
    THEN IF Len(acc) + 1 >= limit THEN Append(acc, Head(its))
         ELSE SearchCvesInSource(Tail(its), query_lower, limit, Append(acc, Head(its)))
  ELSE SearchCvesInSource(Tail(its), query_lower, limit, acc)

RECURSIVE SearchCves(_, _, _, _)
SearchCves(d, query_lower, limit, acc) ==
  IF d = <<>> THEN acc
  ELSE SearchCves(Tail(d), query_lower, limit,
                  SearchCvesInSource(Head(d).items, query_lower, limit, acc))

SearchFeedsOp(fi, fc, query, limit) ==
  [iocs |-> SearchIocs(fi, Lower(query), limit, <<>>),
   cves |-> SearchCves(fc, Lower(query), limit, <<>>)]

SearchFeeds(q, limit) ==
  /\ last' = [op |-> "search_feeds", query |-> q, limit |-> limit,
              ret |-> SearchFeedsOp(feed_iocs, feed_cves, q, limit)]
  /\ UNCHANGED <<items, id_index, feed_iocs, feed_cves, feed_last_updated, clock>>
  /\ UNCHANGED others

(***************************************************************************)
(* search_feeds over the feed collections a series of syncs can leave:     *)
(* feed_iocs holds snapshots of some IOC sources, feed_cves one of         *)
(* cisa_kev or none.                                                       *)
(***************************************************************************)
SeqsUpTo(S, n) == UNION {[1..k -> S] : k \in 0..n}

IocSourceOrder ==
  <<"threatfox", "urlhaus", "malwarebazaar", "feodotracker", "sslbl",
    "emergingthreats", "c2_tracker", "openphish">>

SearchQueries == {"", "evil", "Emotet"}
\* a snapshot: some records of one kind, then perhaps one of the other, up to
\* MaxSnapshot in all
Repeat(x, n) == [i \in 1..n |-> x]
SnapshotsOf(x, y) ==
  {Repeat(x, c[1]) \o Repeat(y, c[2]) :
     c \in {d \in (0..MaxSnapshot) \X (0..1) : d[1] + d[2] <= MaxSnapshot}}
SearchIocSnapshots == SnapshotsOf(IocEvil, IocEmotet)
SearchCveSnapshots == {<<CveLog4j>>, <<CveLog4j, CveEvil>>}

\* each source's snapshot holds records that carry that source's name
SearchIocStores ==
  {[i \in 1..Len(f) |->
      [source |-> IocSourceOrder[i],
       items |-> [j \in 1..Len(f[i]) |-> [f[i][j] EXCEPT !.source = IocSourceOrder[i]]]]] :
     f \in SeqsUpTo(SearchIocSnapshots, MaxSources)}
SearchCveStores ==
  {<<>>} \cup {<<[source |-> "cisa_kev", items |-> its]>> : its \in SearchCveSnapshots}

InitSearch ==
  /\ items = <<>>
  /\ id_index = <<>>
  /\ feed_iocs \in SearchIocStores
  /\ feed_cves \in SearchCveStores
  /\ feed_last_updated = [k \in DictKeys(feed_iocs) \cup DictKeys(feed_cves) |-> 0]
  /\ clock = 1
  /\ last = NoCall
  /\ net = NoRequest
  /\ sync = Idle
  /\ raw_query = <<>>
  /\ parsed = ParsedQuery
  /\ news = NoNews
  /\ doc_text = NoText

NextSearch ==
  \E q \in SearchQueries, limit \in 1..MaxLimit : SearchFeeds(q, limit)

SpecSearch == InitSearch /\ [][NextSearch]_vars

(***************************************************************************)
(* The feed adapters run on one response each.                             *)
(***************************************************************************)
TfGood1 ==
  <<"2024-01-01 00:00:00", "1", "185.220.101.5:443", "ip:port", "botnet_cc", "win.emotet",
    "", "Emotet", "", "75", "False", "", "c2,emotet", "0", "abuse_ch">>
TfGood2 ==
  <<"2024-01-02 00:00:00", "2", "evil.com", "domain", "payload_delivery", "unknown",
    "", "Unknown malware", "", "high", "False", "", "", "0", "anon">>
\* a row cut after two and after five columns
TfShort2 == <<"2024-01-03 00:00:00", "8">>
TfShort5 == <<"2024-01-03 00:00:00", "9", "10.0.0.1:80", "ip:port", "botnet_cc">>
\* a full row with a blank ioc_value
TfBlankValue ==
  <<"2024-01-04 00:00:00", "7", "  ", "ip:port", "botnet_cc", "win.emotet",
    "", "Emotet", "", "75", "False", "", "", "0", "abuse_ch">>

ThreatfoxLines ==
  {CommentLine, Row(<<>>), Row(TfGood1), Row(TfGood2), Row(TfShort2), Row(TfShort5),
   Row(TfBlankValue)}

MbGoodA ==
  <<"2024-01-01 00:00:00", Sha256A, "md5a", "sha1a", "abuse_ch", "a.exe", "exe",
    "application/x-dosexec", "AgentTesla", "n/a", "n/a", "n/a", "n/a", "n/a">>
MbGoodB ==
  <<"2024-01-02 00:00:00", Sha256B, "md5b", "sha1b", "anon", "b.elf", "elf",
    "application/x-executable", "n/a", "n/a", "n/a", "n/a", "n/a", "n/a">>
\* a full row whose sha256 field holds 30 characters
MbGarbled ==
  <<"2024-01-03 00:00:00", Garbled30, "md5c", "sha1c", "anon", "c.exe", "exe",
    "application/x-dosexec", "n/a", "n/a", "n/a", "n/a", "n/a", "n/a">>
\* a full row whose sha256 field holds 64 characters that are no hex digits
MbNonHex ==
  <<"2024-01-05 00:00:00", NonHex64, "md5d", "sha1d", "anon", "d.exe", "exe",
    "application/x-dosexec", "n/a", "n/a", "n/a", "n/a", "n/a", "n/a">>
\* rows cut after one and after two columns
MbShort1 == <<"2024-01-04 00:00:00">>
MbShort2 == <<"2024-01-04 00:00:00", Sha256B>>

MalwarebazaarLines ==
  {CommentLine, Row(MbGoodA), Row(MbGoodB), Row(MbGarbled), Row(MbNonHex),
   Row(MbShort1), Row(MbShort2)}

UrlhausValues ==
  {UrlhausValue("list", "http://evil.com/a.php", "malware_download", "list", <<"elf", "mozi">>),
   UrlhausValue("bare", "http://evil.com/b", None, "null", <<>>),
   UrlhausValue("emptylist", None, None, "null", <<>>),
   UrlhausValue("string", None, None, "null", <<>>),
   UrlhausValue("list", "http://evil.com/c", "malware_download", "string", <<"m", "o">>)}

UrlhausIds == <<"3001", "3002", "3003", "3004", "3005", "3006">>

\* mappings of up to MaxRows ids, a non-empty top-level list, undecodable text
UrlhausBodies ==
  {JsonDict([i \in 1..Len(f) |-> [id |-> UrlhausIds[i], val |-> f[i]]]) :
      f \in SeqsUpTo(UrlhausValues, MaxRows)}
  \cup {JsonList(<<[id |-> "0", val |-> UrlhausValue("string", None, None, "null", <<>>)]>>),
        Undecodable}

FailedResponses(emptyBody) ==
  {Response(st, emptyBody) : st \in HttpStatuses \ {"ok"}}

AdapterRequests ==
  {[feed |-> "threatfox", resp |-> r] :
      r \in {Response("ok", b) : b \in SeqsUpTo(ThreatfoxLines, MaxRows)}
            \cup FailedResponses(<<>>)}
  \cup {[feed |-> "malwarebazaar", resp |-> r] :
      r \in {Response("ok", b) : b \in SeqsUpTo(MalwarebazaarLines, MaxRows)}
            \cup FailedResponses(<<>>)}
  \cup {[feed |-> "urlhaus", resp |-> r] :
      r \in {Response("ok", b) : b \in UrlhausBodies} \cup FailedResponses(Undecodable)}

FetchThreatfox(limit) ==
  /\ net.feed = "threatfox"
  /\ last' = [op |-> "fetch_threatfox", limit |-> limit,
              ret |-> fetch_threatfox(net.resp, limit)]
  /\ UNCHANGED <<items, id_index, feed_iocs, feed_cves, feed_last_updated, clock, others>>

FetchMalwarebazaar(limit) ==
  /\ net.feed = "malwarebazaar"
  /\ last' = [op |-> "fetch_malwarebazaar", limit |-> limit,
              ret |-> fetch_malwarebazaar(net.resp, limit)]
  /\ UNCHANGED <<items, id_index, feed_iocs, feed_cves, feed_last_updated, clock, others>>

FetchUrlhaus(limit) ==
  /\ net.feed = "urlhaus"
  /\ last' = [op |-> "fetch_urlhaus", limit |-> limit,
              ret |-> fetch_urlhaus(net.resp, limit)]
  /\ UNCHANGED <<items, id_index, feed_iocs, feed_cves, feed_last_updated, clock, others>>

InitAdapters ==
  /\ items = <<>>
  /\ id_index = <<>>
  /\ feed_iocs = <<>>
  /\ feed_cves = <<>>
  /\ feed_last_updated = <<>>
  /\ clock = 0
  /\ last = NoCall
  /\ net \in AdapterRequests
  /\ sync = Idle
  /\ raw_query = <<>>
  /\ parsed = ParsedQuery
  /\ news = NoNews
  /\ doc_text = NoText

NextAdapters ==
  \/ \E limit \in 1..MaxLimit : FetchThreatfox(limit)
  \/ \E limit \in 1..MaxLimit : FetchMalwarebazaar(limit)
  \/ \E limit \in 1..MaxLimit : FetchUrlhaus(limit)

SpecAdapters == InitAdapters /\ [][NextAdapters]_vars

(***************************************************************************)
(* main.py: sync_feeds                                                     *)
(***************************************************************************)
\* the keys of the fetchers table
FetcherNames ==
  {"threatfox", "urlhaus", "malwarebazaar", "feodotracker", "sslbl",
   "emergingthreats", "c2_tracker", "openphish", "cisa_kev"}

\* the call fetchers[source]() for the sources a request of the model names
RunFetcher(source, resp, limit) ==
  CASE source = "threatfox" -> fetch_threatfox(resp, limit)
    [] source = "urlhaus" -> fetch_urlhaus(resp, limit)
    [] source = "malwarebazaar" -> fetch_malwarebazaar(resp, limit)
    [] source = "cisa_kev" -> fetch_cisa_kev(resp)
    [] source = "feodotracker" -> fetch_feodotracker(resp)

\* the KEV catalog document: a mapping with (or without) "vulnerabilities", or
\* a top-level list
KevDoc(kind, hasVulnerabilities, entries) ==
  [kind |-> kind, hasVulnerabilities |-> hasVulnerabilities, entries |-> entries]
KevVuln(isObject, cveID, vendor, product, name, dateAdded, ransomware) ==
  [isObject |-> isObject, cveID |-> cveID, vendorProject |-> vendor, product |-> product,
   vulnerabilityName |-> name, dateAdded |-> dateAdded,
   knownRansomwareCampaignUse |-> ransomware]
KevLog4j ==
  KevVuln(TRUE, "CVE-2021-44228", "Apache", "Log4j2",
          "Apache Log4j2 Remote Code Execution Vulnerability", "2021-12-10", "Known")

\* names a request of the model can carry, the last one in no table
SyncNames == {"threatfox", "urlhaus", "cisa_kev", "nosuchfeed"}

\* what the network can answer when a sync fetches a source
SyncResponses(source) ==
  CASE source = "threatfox" ->
         {Response("network_error", <<>>), Response("http_500", <<>>),
          Response("ok", <<Row(TfGood1)>>),
          Response("ok", <<CommentLine, Row(TfGood1), Row(TfGood2)>>)}
    [] source = "urlhaus" ->
         {Response("network_error", Undecodable), Response("ok", Undecodable),
          Response("ok", JsonDict(<<[id |-> "3001",
             val |-> UrlhausValue("list", "http://evil.com/a.php", "malware_download",
                                  "list", <<"elf", "mozi">>)]>>)),
          Response("ok", JsonList(<<[id |-> "0",
             val |-> UrlhausValue("string", None, None, "null", <<>>)]>>))}
    [] source = "cisa_kev" ->
         {Response("network_error", KevDoc("undecodable", FALSE, <<>>)),
          Response("ok", KevDoc("undecodable", FALSE, <<>>)),
          Response("ok", KevDoc("dict", TRUE, <<KevLog4j>>)),
          Response("ok", KevDoc("list", TRUE, <<KevLog4j>>))}
    [] source = "feodotracker" ->
         {Response("network_error", Undecodable),
          Response("ok", JsonList(<<FeodoEntry(TRUE, "1.2.3.4", "Emotet")>>)),
          Response("ok", JsonList(<<FeodoEntry(TRUE, "1.2.3.4", "Emotet"),
                                    FeodoEntry(TRUE, "1.2.3.4", "Emotet")>>)),
          Response("ok", JsonList(<<FeodoEntry(TRUE, "1.2.3.4", "Emotet"),
                                    FeodoEntry(FALSE, None, None),
                                    FeodoEntry(TRUE, "5.6.7.8", None),
                                    FeodoEntry(TRUE, None, "QakBot")>>)),
          Response("ok", JsonDict(<<FeodoEntry(FALSE, None, None)>>))}

\* the sources fetched with fetch_json
JsonFeeds == {"urlhaus", "feodotracker", "sslbl", "cisa_kev"}

\* the fetch of a source failed: no 2xx response, or a JSON body that does not decode
FetchFailed(source, resp) ==
  resp.status # "ok" \/ (source \in JsonFeeds /\ resp.body.kind = "undecodable")

ErrorEntry(source, kind) == [source |-> source, kind |-> kind]
SyncedEntry(source, count) == [source |-> source, count |-> count]

\* a loop that is left at the first exception
NextPos_StopOnError(pos, n, raised) == IF raised THEN n + 1 ELSE pos + 1

\* the for loop goes on to the next name after each name, the try block being
\* inside the loop body
NextPos(pos, n, raised) == pos + 1

\* an unknown name that ends the loop
UnknownSource_Break(sy) ==
  [sy EXCEPT !.errors = Append(@, ErrorEntry(sy.sources[sy.pos], "unknown")),
             !.log = Append(@, [source |-> sy.sources[sy.pos], fetched |-> FALSE,
                                failed |-> FALSE, raised |-> FALSE, items |-> <<>>]),
             !.pos = Len(sy.sources) + 1]

\* "if source not in fetchers": the error entry, then continue
UnknownSource(sy) ==
  [sy EXCEPT !.errors = Append(@, ErrorEntry(sy.sources[sy.pos], "unknown")),
             !.log = Append(@, [source |-> sy.sources[sy.pos], fetched |-> FALSE,
                                failed |-> FALSE, raised |-> FALSE, items |-> <<>>]),
             !.pos = NextPos(sy.pos, Len(sy.sources), FALSE)]

\* sync_feeds starts: results is empty, the loop is at the first name
SyncStart(sources, limit) ==
  /\ sync.pc \in {"idle", "done"}
  /\ clock + Len(sources) <= MaxSyncFetches
  /\ sync' = [pc |-> "running", sources |-> sources, limit |-> limit, pos |-> 1,
              synced_sources |-> <<>>, errors |-> <<>>, log |-> <<>>]
  /\ UNCHANGED <<items, id_index, feed_iocs, feed_cves, feed_last_updated, clock, last,
                 net, raw_query, parsed, news, doc_text>>

\* one pass of the loop body for a name that is in no table
SyncUnknown ==
  /\ sync.pc = "running"
  /\ sync.pos <= Len(sync.sources)
  /\ sync.sources[sync.pos] \notin FetcherNames
  /\ sync' = UnknownSource(sync)
  /\ UNCHANGED <<items, id_index, feed_iocs, feed_cves, feed_last_updated, clock, last,
                 net, raw_query, parsed, news, doc_text>>

\* one pass of the loop body for a known name: the awaited fetch answers with
\* resp (time passes); an exception out of the adapter becomes an error entry,
\* a returned list is stored as the snapshot and reported as synced
SyncFetch(resp) ==
  /\ sync.pc = "running"
  /\ sync.pos <= Len(sync.sources)
  /\ sync.sources[sync.pos] \in FetcherNames
  /\ LET source == sync.sources[sync.pos]
         out == RunFetcher(source, resp, sync.limit)
         entry == [source |-> source, fetched |-> TRUE, failed |-> FetchFailed(source, resp),
                   raised |-> out.raised, items |-> out.items]
     IN IF out.raised
        THEN /\ sync' = [sync EXCEPT !.errors = Append(@, ErrorEntry(source, "exception")),
                                     !.log = Append(@, entry),
                                     !.pos = NextPos(@, Len(sync.sources), TRUE)]
             /\ clock' = clock + 1
             /\ UNCHANGED <<feed_iocs, feed_cves, feed_last_updated>>
        ELSE LET r == IF source = "cisa_kev"
                      THEN UpdateFeedCvesOp(Feeds, source, out.items)
                      ELSE UpdateFeedIocsOp(Feeds, source, out.items)
             IN /\ feed_iocs' = r.feed_iocs
                /\ feed_cves' = r.feed_cves
                /\ feed_last_updated' = r.feed_last_updated
                /\ clock' = r.clock
                /\ sync' = [sync EXCEPT
                              !.synced_sources = Append(@, SyncedEntry(source, r.count)),
                              !.log = Append(@, entry),
                              !.pos = NextPos(@, Len(sync.sources), FALSE)]
  /\ UNCHANGED <<items, id_index, last, net, raw_query, parsed, news, doc_text>>

RECURSIVE TotalRecords(_)
TotalRecords(d) ==
  IF d = <<>> THEN 0 ELSE Len(Head(d).items) + TotalRecords(Tail(d))

\* the loop is over: the totals of get_feed_stats are added and results returned
SyncFinish ==
  /\ sync.pc = "running"
  /\ sync.pos > Len(sync.sources)
  /\ sync' = [sync EXCEPT !.pc = "done"]
  /\ last' = [op |-> "sync_feeds",
              ret |-> [success |-> TRUE, synced_sources |-> sync.synced_sources,
                       errors |-> sync.errors,
                       total_iocs |-> TotalRecords(feed_iocs),
                       total_cves |-> TotalRecords(feed_cves)]]
  /\ UNCHANGED <<items, id_index, feed_iocs, feed_cves, feed_last_updated, clock,
                 net, raw_query, parsed, news, doc_text>>

\* non-empty requests of up to MaxRequest names
SyncRequests == SeqsUpTo(SyncNames, MaxRequest) \ {<<>>}

NextSync ==
  \/ \E sources \in SyncRequests, limit \in 1..MaxLimit : SyncStart(sources, limit)
  \/ SyncUnknown
  \/ \E src \in SyncNames \cap FetcherNames : \E resp \in SyncResponses(src) :
        /\ sync.pc = "running"
        /\ sync.pos <= Len(sync.sources)
        /\ sync.sources[sync.pos] = src
        /\ SyncFetch(resp)
  \/ SyncFinish

SpecSync == InitStore /\ [][NextSync]_vars

\* syncs of a source whose adapter takes the limit and of one whose adapter
\* takes no argument
RegistryNames == {"threatfox", "feodotracker"}
RegistryRequests == SeqsUpTo(RegistryNames, MaxRequest) \ {<<>>}

NextRegistry ==
  \/ \E sources \in RegistryRequests, limit \in 1..MaxLimit : SyncStart(sources, limit)
  \/ \E src \in RegistryNames : \E resp \in SyncResponses(src) :
        /\ sync.pc = "running"
        /\ sync.pos <= Len(sync.sources)
        /\ sync.sources[sync.pos] = src
        /\ SyncFetch(resp)
  \/ SyncFinish

SpecRegistry == InitStore /\ [][NextRegistry]_vars

(***************************************************************************)
(* query_parser.py                                                         *)
(***************************************************************************)
\* A query is a text: a sequence of tokens separated by blanks, a token being
\* a sequence of runs of word characters separated by hyphens, so that
\* "show IoCs for CVE-2025-1234" is
\* << <<"show">>, <<"IoCs">>, <<"for">>, <<"CVE", "2025", "1234">> >>.
\* A word boundary \b lies at both ends of every non-empty run and nowhere
\* else. A regular expression is the set of phrases it matches, a phrase being
\* a sequence of lower-case words that stand in the text with blanks between
\* them (the spellings that run two words of a phrase together, as "24h", are
\* words of their own).
Words(ws) == {<<w>> : w \in ws}

RECURSIVE JoinWith(_, _)
JoinWith(parts, sep) ==
  IF parts = <<>> THEN ""
  ELSE IF Len(parts) = 1 THEN parts[1]
  ELSE parts[1] \o sep \o JoinWith(Tail(parts), sep)

\* the text of a query
Text(query) == JoinWith([k \in 1..Len(query) |-> JoinWith(query[k], "-")], " ")

\* str.upper on the runs of the model
Upper(s) ==
  IF s \in {"cve", "Cve", "CVE"} THEN "CVE"
  ELSE IF s = "cve-2021-44228" THEN "CVE-2021-44228"
  ELSE IF s = "cve-2025-1234" THEN "CVE-2025-1234"
  ELSE s

\* the runs of the model that are made of digits only
DigitRuns == {"7", "24", "30", "1234", "2021", "2025", "44228"}

TIME_PATTERNS ==
  << [pattern |-> {<<"today">>}
                  \cup {<<l, "24", h>> : l \in {"last", "past"}, h \in {"h", "hour", "hours"}}
                  \cup {<<l, h>> : l \in {"last", "past"}, h \in {"24h", "24hour", "24hours"}},
      value |-> "last_24h"],
     [pattern |-> {<<l, n, d>> : l \in {"last", "past"}, n \in {"7", "seven"},
                                 d \in {"day", "days"}}
                  \cup {<<"this", "week">>},
      value |-> "7d"],
     [pattern |-> {<<l, n, d>> : l \in {"last", "past"}, n \in {"30", "thirty"},
                                 d \in {"day", "days"}}
                  \cup {<<"this", "month">>},
      value |-> "30d"],
     [pattern |-> {<<"last", "week">>}, value |-> "7d"],
     [pattern |-> {<<"last", "month">>}, value |-> "30d"] >>

TYPE_INDICATORS ==
  << [name |-> "cve",
      patterns |-> <<Words({"cve", "cves"}), Words({"vulnerability", "vulnerabilities"})>>],
     [name |-> "ioc",
      patterns |-> <<Words({"ioc", "iocs"}), Words({"indicator", "indicators"}),
                     Words({"ip", "ips"}), Words({"domain", "domains"}),
                     Words({"hash", "hashes"}), Words({"url", "urls"})>>],
     [name |-> "threat",
      patterns |-> <<Words({"threat", "threats"}), Words({"malware"}),
                     Words({"actor", "actors"}), Words({"apt", "apts"}),
                     Words({"attack", "attacker", "attackers"})>>],
     [name |-> "item",
      patterns |-> <<Words({"article", "articles"}), Words({"report", "reports"}),
                     Words({"news"}), Words({"pdf", "pdfs"})>>] >>

ENTITY_INDICATORS ==
  << [name |-> "ip",
      patterns |-> <<Words({"ip", "ips"}),
                     Words({"ipaddress", "ipaddresses"})
                       \cup {<<"ip", "address">>, <<"ip", "addresses">>}>>],
     [name |-> "domain", patterns |-> <<Words({"domain", "domains"})>>],
     [name |-> "hash",
      patterns |-> <<Words({"hash", "hashes"}), Words({"md5"}),
                     Words({"sha1", "sha256", "sha512"})>>],
     [name |-> "url", patterns |-> <<Words({"url", "urls"})>>] >>

SOURCE_INDICATORS ==
  << [name |-> "bleepingcomputer",
      patterns |-> <<Words({"bleepingcomputer"}) \cup {<<"bleeping", "computer">>},
                     Words({"bleeping"})>>],
     [name |-> "gbhackers",
      patterns |-> <<Words({"gbhacker", "gbhackers"}),
                     Words({"gbhacker", "gbhackers"})
                       \cup {<<"gb", "hacker">>, <<"gb", "hackers">>}>>],
     [name |-> "pdf",
      patterns |-> <<Words({"pdf", "pdfs"}), Words({"uploade", "uploaded"}),
                     Words({"report", "reports"})>>] >>

STOP_WORDS ==
  {"show", "find", "search", "list", "get", "display", "give", "me", "the",
   "all", "any", "from", "for", "with", "about", "related", "to", "in",
   "a", "an", "and", "or", "of", "are", "is", "was", "were", "been",
   "what", "which", "where", "when", "how", "can", "could", "would",
   "please", "thanks", "thank", "you", "i", "my", "we", "our"}

\* phrase stands in query from token k on: its first word ends token k, its
\* last word begins the token it reaches, the words between are whole tokens
PhraseAt(query, k, phrase) ==
  LET n == Len(phrase)
  IN IF n = 1
     THEN \E i \in 1..Len(query[k]) : Lower(query[k][i]) = phrase[1]
     ELSE /\ k + n - 1 <= Len(query)
          /\ Lower(query[k][Len(query[k])]) = phrase[1]
          /\ \A j \in 2..(n - 1) : Len(query[k + j - 1]) = 1
                                      /\ Lower(query[k + j - 1][1]) = phrase[j]
          /\ Lower(query[k + n - 1][1]) = phrase[n]

\* re.search(pattern, query_lower)
Search(pattern, query) ==
  \E phrase \in pattern : \E k \in 1..Len(query) : PhraseAt(query, k, phrase)

SearchAny(patterns, query) == \E i \in 1..Len(patterns) : Search(patterns[i], query)

\* the loop over an indicator table in its order, with its fallback
RECURSIVE FirstIndicator(_, _, _)
FirstIndicator(table, query, fallback) ==
  IF table = <<>> THEN fallback
  ELSE IF SearchAny(Head(table).patterns, query) THEN Head(table).name
  ELSE FirstIndicator(Tail(table), query, fallback)

RECURSIVE extract_time_loop(_, _)
extract_time_loop(table, query) ==
  IF table = <<>> THEN None
  ELSE IF Search(Head(table).pattern, query) THEN Head(table).value
  ELSE extract_time_loop(Tail(table), query)

extract_time_range(query) == extract_time_loop(TIME_PATTERNS, query)

\* CVE_PATTERN matches at run i of a token: "cve" in any case, a hyphen, four
\* digits, a hyphen, four digits or more (the runs of the model are all digits
\* or start with a letter, and those ending in "cve" are "cve" itself)
CveAt(tok, i) ==
  /\ i + 2 <= Len(tok)
  /\ Lower(tok[i]) = "cve"
  /\ tok[i + 1] \in DigitRuns /\ Len(tok[i + 1]) = 4
  /\ tok[i + 2] \in DigitRuns /\ Len(tok[i + 2]) >= 4

CveMatchesIn(query) ==
  UNION {{<<k, i>> : i \in {j \in 1..Len(query[k]) : CveAt(query[k], j)}} :
            k \in 1..Len(query)}

\* search() returns the leftmost match; group(0).upper()
extract_cve_id(query) ==
  IF CveMatchesIn(query) = {} THEN None
  ELSE LET m == CHOOSE a \in CveMatchesIn(query) :
                   \A b \in CveMatchesIn(query) :
                      a[1] < b[1] \/ (a[1] = b[1] /\ a[2] <= b[2])
           tok == query[m[1]]
       IN Upper(tok[m[2]]) \o "-" \o Upper(tok[m[2] + 1]) \o "-" \o Upper(tok[m[2] + 2])

extract_query_type(query) == FirstIndicator(TYPE_INDICATORS, query, "all")
extract_entity_type(query) == FirstIndicator(ENTITY_INDICATORS, query, None)
extract_source(query) == FirstIndicator(SOURCE_INDICATORS, query, None)

\* CVE_PATTERN.sub('', text) inside a token: a match leaves an empty run
RECURSIVE SubCveInToken(_)
SubCveInToken(tok) ==
  IF tok = <<>> THEN <<>>
  ELSE IF CveAt(tok, 1) THEN <<"">> \o SubCveInToken(SubSeq(tok, 4, Len(tok)))
  ELSE <<Head(tok)>> \o SubCveInToken(Tail(tok))

RECURSIVE SubCve(_)
SubCve(query) ==
  IF query = <<>> THEN <<>> ELSE <<SubCveInToken(Head(query))>> \o SubCve(Tail(query))

\* a token that has become empty leaves its two blanks side by side
RECURSIVE DropEmpty(_)
DropEmpty(query) ==
  IF query = <<>> THEN <<>>
  ELSE IF Head(query) = <<"">> THEN DropEmpty(Tail(query))
  ELSE <<Head(query)>> \o DropEmpty(Tail(query))

\* re.sub of the one-word phrases of a pattern, in any case
RECURSIVE SubWordsInToken(_, _)
SubWordsInToken(tok, pattern) ==
  IF tok = <<>> THEN <<>>
  ELSE <<IF <<Lower(Head(tok))>> \in pattern THEN "" ELSE Head(tok)>>
          \o SubWordsInToken(Tail(tok), pattern)

RECURSIVE SubWords(_, _)
SubWords(query, pattern) ==
  IF query = <<>> THEN <<>>
  ELSE <<SubWordsInToken(Head(query), pattern)>> \o SubWords(Tail(query), pattern)

\* re.sub of the longer phrases of a pattern in one pass from the left: a match
\* takes the blanks inside it, so what is left of its first and last token
\* becomes one token
RECURSIVE SubPhrases(_, _)
SubPhrases(query, pattern) ==
  IF query = <<>> THEN <<>>
  ELSE LET hits == {ph \in pattern : Len(ph) > 1 /\ PhraseAt(query, 1, ph)}
       IN IF hits = {}
          THEN <<Head(query)>> \o SubPhrases(Tail(query), pattern)
          ELSE LET n == Len(CHOOSE ph \in hits : TRUE)
                   first == query[1]
                   merged == SubSeq(first, 1, Len(first) - 1) \o <<"">> \o Tail(query[n])
               IN <<merged>> \o SubPhrases(SubSeq(query, n + 1, Len(query)), pattern)

Sub(query, pattern) == DropEmpty(SubPhrases(SubWords(query, pattern), pattern))

RECURSIVE SubEach(_, _)
SubEach(query, patterns) ==
  IF patterns = <<>> \/ query = <<>> THEN query
  ELSE LET text == Sub(query, Head(patterns))
       IN IF text = <<>> THEN <<>> ELSE SubEach(text, Tail(patterns))

\* the patterns of a table in the order of its entries
RECURSIVE PatternsOf(_)
PatternsOf(table) ==
  IF table = <<>> THEN <<>> ELSE Head(table).patterns \o PatternsOf(Tail(table))

TimePatternKeys == [i \in 1..Len(TIME_PATTERNS) |-> TIME_PATTERNS[i].pattern]

\* re.findall(r'\b[a-zA-Z0-9_-]+\b', text) finds at most one word in a token:
\* from its first to its last non-empty run, hyphens included
WordOf(tok) ==
  LET full == {i \in 1..Len(tok) : tok[i] # ""}
      lo == CHOOSE i \in full : \A j \in full : i <= j
      hi == CHOOSE i \in full : \A j \in full : j <= i
  IN IF full = {} THEN <<>> ELSE SubSeq(tok, lo, hi)

\* w.lower() not in STOP_WORDS and len(w) > 1
IsKeyword(runs) ==
  /\ runs # <<>>
  /\ ~(Len(runs) = 1 /\ Lower(runs[1]) \in STOP_WORDS)
  /\ Len(JoinWith(runs, "-")) > 1

RECURSIVE KeywordsOf(_)
KeywordsOf(text) ==
  IF text = <<>> THEN <<>>
  ELSE IF IsKeyword(WordOf(Head(text)))
    THEN <<JoinWith(WordOf(Head(text)), "-")>> \o KeywordsOf(Tail(text))
  ELSE KeywordsOf(Tail(text))

extract_keywords(query) ==
  LET noCve == DropEmpty(SubCve(query))
      noTime == SubEach(noCve, TimePatternKeys)
      noType == SubEach(noTime, PatternsOf(TYPE_INDICATORS))
      noSource == SubEach(noType, PatternsOf(SOURCE_INDICATORS))
  IN KeywordsOf(noSource)

parse_query(query) ==
  [raw_query |-> Text(query),
   time_range |-> extract_time_range(query),
   cve_id |-> extract_cve_id(query),
   query_type |-> extract_query_type(query),
   entity_type |-> extract_entity_type(query),
   source |-> extract_source(query),
   keywords |-> extract_keywords(query)]

\* a call of parse_query on the query at hand
ParseQuery ==
  /\ last' = [op |-> "parse_query", arg |-> raw_query, ret |-> parse_query(raw_query)]
  /\ UNCHANGED <<items, id_index, feed_iocs, feed_cves, feed_last_updated, clock,
                 net, sync, raw_query, parsed, news, doc_text>>

(***************************************************************************)
(* parse_query over the queries of up to MaxTokens tokens, and the         *)
(* examples of its docstring.                                              *)
(***************************************************************************)
QueryTokens ==
  {<<"show">>, <<"IoCs">>, <<"for">>, <<"CVE", "2025", "1234">>,
   <<"cve", "2021", "44228">>, <<"indicators">>, <<"Emotet">>, <<"last">>,
   <<"week">>, <<"md5">>, <<"pdf">>}

DocstringExamples ==
  {<< <<"CVEs">>, <<"from">>, <<"last">>, <<"7">>, <<"days">> >>,
   << <<"show">>, <<"IoCs">>, <<"for">>, <<"CVE", "2025", "1234">> >>,
   << <<"find">>, <<"articles">>, <<"about">>, <<"ransomware">> >>,
   << <<"search">>, <<"Emotet">> >>}

Queries == SeqsUpTo(QueryTokens, MaxTokens) \cup DocstringExamples

InitQuery ==
  /\ items = <<>>
  /\ id_index = <<>>
  /\ feed_iocs = <<>>
  /\ feed_cves = <<>>
  /\ feed_last_updated = <<>>
  /\ clock = 0
  /\ last = NoCall
  /\ net = NoRequest
  /\ sync = Idle
  /\ raw_query \in Queries
  /\ parsed = ParsedQuery
  /\ news = NoNews
  /\ doc_text = NoText

NextQuery == ParseQuery

SpecQuery == InitQuery /\ [][NextQuery]_vars

(***************************************************************************)
(* query_parser.py: filter_items                                           *)
(***************************************************************************)
\* The 'date' of a document as filter_items meets it: no date at all
\* ("missing"), a string fromisoformat rejects ("garbled"), an ISO string
\* without offset ("naive", parsed but not comparable with the cutoff), an ISO
\* string with offset ("aware"); age is how many days before now it lies.
DocDate(kind, age) == [kind |-> kind, age |-> age]

\* get_time_filter_date: the cutoff as a number of days before now; a range
\* that is none of the three gives datetime.min, older than every date
get_time_filter_date(time_range) ==
  CASE time_range = "last_24h" -> [bounded |-> TRUE, days |-> 1]
    [] time_range = "7d" -> [bounded |-> TRUE, days |-> 7]
    [] time_range = "30d" -> [bounded |-> TRUE, days |-> 30]
    [] OTHER -> [bounded |-> FALSE, days |-> 0]

\* item_dt >= cutoff
NotOlderThan(age, cutoff) == ~cutoff.bounded \/ age <= cutoff.days

\* a time-range loop that drops the items whose date it cannot compare
PassesTimeRange_Strict(item, cutoff) ==
  item.date.kind = "aware" /\ NotOlderThan(item.date.age, cutoff)

\* the body of the time-range loop for one item
PassesTimeRange(item, cutoff) ==
  CASE item.date.kind = "missing" -> TRUE                 \* falsy item_date
    [] item.date.kind = "garbled" -> TRUE                 \* ValueError, except
    [] item.date.kind = "naive" -> TRUE                   \* TypeError, except
    [] item.date.kind = "aware" -> NotOlderThan(item.date.age, cutoff)

\* the list comprehensions and append loops of filter_items keep the items
\* that pass, in their order: SelectSeq
SourceStep(results, p) ==
  IF Truthy(p.source)
  THEN LET same(i) == Lower(i.source) = Lower(p.source) IN SelectSeq(results, same)
  ELSE results

TimeRangeStep(results, p) ==
  IF Truthy(p.time_range)
  THEN LET cutoff == get_time_filter_date(p.time_range)
           recent(i) == PassesTimeRange(i, cutoff)
       IN SelectSeq(results, recent)
  ELSE results

\* a CVE step that compares the identifiers as they are written
CveStep_CaseSensitive(results, p) ==
  IF Truthy(p.cve_id)
  THEN LET named(i) == p.cve_id \in {i.ext.cves[k] : k \in 1..Len(i.ext.cves)}
       IN SelectSeq(results, named)
  ELSE results

CveStep(results, p) ==
  IF Truthy(p.cve_id)
  THEN LET named(i) == Upper(p.cve_id) \in {Upper(i.ext.cves[k]) : k \in 1..Len(i.ext.cves)}
       IN SelectSeq(results, named)
  ELSE results

\* the parts joined into text_to_search; a keyword holds no blank, so it lies
\* in the joined text exactly when it lies in one of the parts
TextToSearch(item) ==
  <<item.title, item.content, item.description>> \o item.ext.threats \o item.ext.tags

MentionsAny(item, keywords) ==
  \E k \in 1..Len(keywords) : \E n \in 1..Len(TextToSearch(item)) :
     Contains(Lower(TextToSearch(item)[n]), Lower(keywords[k]))

\* a keyword step without its "if parsed.keywords" guard
KeywordStep_Unguarded(results, p) ==
  LET mentioned(i) == MentionsAny(i, p.keywords) IN SelectSeq(results, mentioned)

KeywordStep(results, p) ==
  IF p.keywords # <<>>
  THEN LET mentioned(i) == MentionsAny(i, p.keywords) IN SelectSeq(results, mentioned)
  ELSE results

filter_items(its, p) == KeywordStep(CveStep(TimeRangeStep(SourceStep(its, p), p), p), p)

\* a call of filter_items on the documents at hand
FilterItems ==
  /\ last' = [op |-> "filter_items", arg |-> items, parsed |-> parsed,
              ret |-> filter_items(items, parsed)]
  /\ UNCHANGED <<items, id_index, feed_iocs, feed_cves, feed_last_updated, clock,
                 net, sync, raw_query, parsed, news, doc_text>>

\* the counting loop of generate_answer_summary over the results
RECURSIVE SummaryLoop(_, _)
SummaryLoop(results, acc) ==
  IF results = <<>> THEN acc
  ELSE LET extracted == Head(results).ext
       IN SummaryLoop(Tail(results),
            [total_cves |-> acc.total_cves \cup SeqToSet(extracted.cves),
             total_iocs |-> acc.total_iocs + Len(extracted.ips) + Len(extracted.domains)
                            + Len(extracted.hashes) + Len(extracted.urls),
             total_threats |-> acc.total_threats \cup SeqToSet(extracted.threats)])

Plural(n, word) == ToString(n) \o " " \o word \o (IF n > 1 THEN "s" ELSE "")

TimeDesc(time_range) ==
  CASE time_range = "last_24h" -> "last 24 hours"
    [] time_range = "7d" -> "last 7 days"
    [] time_range = "30d" -> "last 30 days"
    [] OTHER -> time_range

\* generate_answer_summary: the sentence, and the three counts it is made of
generate_answer_summary(results, p) ==
  LET n == SummaryLoop(results, [total_cves |-> {}, total_iocs |-> 0, total_threats |-> {}])
      cves == Cardinality(n.total_cves)
      threats == Cardinality(n.total_threats)
      found == <<"Found " \o ToString(Len(results)) \o " "
                   \o (IF Len(results) = 1 THEN "item" ELSE "items")>>
      about == IF Truthy(p.cve_id) THEN <<"related to " \o p.cve_id>>
               ELSE IF p.keywords # <<>>
                 THEN <<"mentioning '" \o JoinWith(p.keywords, ", ") \o "'">>
               ELSE <<>>
      from == IF Truthy(p.time_range) THEN <<"from " \o TimeDesc(p.time_range)>> ELSE <<>>
      extras == (IF cves > 0 THEN <<Plural(cves, "CVE")>> ELSE <<>>)
                \o (IF n.total_iocs > 0 THEN <<Plural(n.total_iocs, "IoC")>> ELSE <<>>)
                \o (IF threats > 0 THEN <<Plural(threats, "threat")>> ELSE <<>>)
  IN IF results = <<>>
     THEN [text |-> "No results found for '" \o p.raw_query \o "'",
           cves |-> 0, iocs |-> 0, threats |-> 0]
     ELSE [text |-> JoinWith(found \o about \o from, " ") \o "."
                    \o (IF extras # <<>>
                        THEN " Contains " \o JoinWith(extras, ", ") \o "." ELSE ""),
           cves |-> cves, iocs |-> n.total_iocs, threats |-> threats]

\* the search endpoint after parse_query: the documents are filtered and the
\* results summarised
SearchEndpoint ==
  /\ last' = [op |-> "search", arg |-> items, parsed |-> parsed,
              results |-> filter_items(items, parsed),
              ret |-> generate_answer_summary(filter_items(items, parsed), parsed)]
  /\ UNCHANGED <<items, id_index, feed_iocs, feed_cves, feed_last_updated, clock,
                 net, sync, raw_query, parsed, news, doc_text>>

(***************************************************************************)
(* filter_items and generate_answer_summary over up to MaxFilterDocs       *)
(* documents and the ParsedQuery values a query can give.                  *)
(***************************************************************************)
FilterExt(ext, threats) ==
  [cves |-> ext.cves, ips |-> ext.ips, domains |-> ext.domains, urls |-> ext.urls,
   hashes |-> ext.hashes, threats |-> threats, tags |-> <<>>]

\* what the documents are about: an article with indicators, a PDF report
\* sharing some of them, an article with none
FilterProfiles ==
  {[title |-> "Emotet returns", source |-> "bleepingcomputer", content |-> "",
    description |-> "", ext |-> FilterExt(ExtA, <<"Emotet">>)],
   [title |-> "report.pdf", source |-> "pdf", content |-> "",
    description |-> "", ext |-> FilterExt(ExtB, <<"Emotet">>)],
   [title |-> "Patch Tuesday", source |-> "bleepingcomputer", content |-> "",
    description |-> "", ext |-> FilterExt(ExtEmpty, <<>>)]}

FilterDates ==
  {DocDate("missing", 0), DocDate("garbled", 0), DocDate("naive", 31),
   DocDate("aware", 1), DocDate("aware", 8), DocDate("aware", 31)}

\* the dates each profile is seen with: the article with every kind, the
\* report and the plain article with some
FilterDatesOf(title) ==
  CASE title = "Emotet returns" -> FilterDates
    [] title = "report.pdf" -> {DocDate("missing", 0), DocDate("aware", 1), DocDate("aware", 8)}
    [] OTHER -> {DocDate("garbled", 0), DocDate("aware", 31)}

FilterDocs ==
  UNION {{[title |-> f.title, source |-> f.source, content |-> f.content,
           description |-> f.description, ext |-> f.ext, date |-> d] :
              d \in FilterDatesOf(f.title)} : f \in FilterProfiles}

ParsedQueries ==
  {[ParsedQuery EXCEPT !.source = s, !.time_range = t, !.cve_id = c, !.keywords = k] :
      s \in {None, "pdf"}, t \in {None, "last_24h", "7d", "30d"},
      c \in {None, "cve-2021-44228"}, k \in {<<>>, <<"ransomware", "Emotet">>}}

InitFilter ==
  /\ items \in SeqsUpTo(FilterDocs, MaxFilterDocs)
  /\ id_index = <<>>
  /\ feed_iocs = <<>>
  /\ feed_cves = <<>>
  /\ feed_last_updated = <<>>
  /\ clock = 0
  /\ last = NoCall
  /\ net = NoRequest
  /\ sync = Idle
  /\ raw_query = <<>>
  /\ parsed \in ParsedQueries
  /\ news = NoNews
  /\ doc_text = NoText

NextFilter == FilterItems \/ SearchEndpoint

SpecFilter == InitFilter /\ [][NextFilter]_vars

(***************************************************************************)
(* store.py / main.py: reading the stored documents                        *)
(***************************************************************************)
\* the key x.get('date', x.get('added_at', '')): the date when the document
\* has one, else the time it was added.  The ISO strings of the model compare
\* as their instants do: a date lies its age in days before the first add,
\* added_at is the clock reading of the add
SortKey(x) == IF x.date.kind = "missing" THEN x.added_at ELSE 0 - x.date.age

\* the documents by date, newest first
NewestFirst(its) ==
  LET keyed == SortDesc([i \in 1..Len(its) |-> [key |-> SortKey(its[i]), val |-> its[i]]])
  IN [i \in 1..Len(its) |-> keyed[i].val]

\* a get_all_items that sorts self.items itself
GetAllItemsOp_InPlace(its) == [items |-> NewestFirst(its), ret |-> NewestFirst(its)]

\* get_all_items: sorted() builds a new list; yields self.items after the call
\* and the list returned
GetAllItemsOp(its) == [items |-> its, ret |-> NewestFirst(its)]

GetAllItems ==
  /\ items' = GetAllItemsOp(items).items
  /\ last' = [op |-> "get_all_items", ret |-> GetAllItemsOp(items).ret]
  /\ UNCHANGED <<id_index, feed_iocs, feed_cves, feed_last_updated, clock>>
  /\ UNCHANGED others

\* ThreatIntelStore.get_item: self._id_index.get(item_id)
GetItem(item_id) ==
  /\ last' = [op |-> "get_item", arg |-> item_id,
              ret |-> IF item_id \in DOMAIN id_index
                      THEN [found |-> TRUE, item |-> id_index[item_id]]
                      ELSE [found |-> FALSE]]
  /\ UNCHANGED <<items, id_index, feed_iocs, feed_cves, feed_last_updated, clock>>
  /\ UNCHANGED others

GetItemsBySource(source) ==
  /\ LET from(i) == i.source = source
     IN last' = [op |-> "get_items_by_source", arg |-> source,
                 ret |-> SelectSeq(items, from)]
  /\ UNCHANGED <<items, id_index, feed_iocs, feed_cves, feed_last_updated, clock>>
  /\ UNCHANGED others

\* the values of one extracted list over the documents, in first-seen order
RECURSIVE FirstSeen(_, _, _)
FirstSeen(its, field, seen) ==
  IF its = <<>> THEN seen
  ELSE LET new(v) == v \notin SeqToSet(seen)
       IN FirstSeen(Tail(its), field, seen \o SelectSeq(Head(its).ext[field], new))

\* the documents that list v; a document lists a value once
Listing(its, field, v) ==
  LET lists(i) == v \in SeqToSet(i.ext[field]) IN SelectSeq(its, lists)

ItemRef(i) == [id |-> i.id, title |-> i.title, source |-> i.source]

\* get_all_cves: one entry per CVE, by count descending
GetAllCves ==
  /\ LET ids == FirstSeen(items, "cves", <<>>)
         entry(c) ==
           LET in == Listing(items, "cves", c)
           IN [key |-> Len(in), id |-> c, count |-> Len(in),
               sources |-> [k \in 1..Len(in) |-> in[k].source],
               items |-> [k \in 1..Len(in) |-> ItemRef(in[k])]]
     IN last' = [op |-> "get_all_cves",
                 ret |-> SortDesc([k \in 1..Len(ids) |-> entry(ids[k])])]
  /\ UNCHANGED <<items, id_index, feed_iocs, feed_cves, feed_last_updated, clock>>
  /\ UNCHANGED others

\* get_all_iocs: each indicator once, with the first document that lists it; a
\* hash value has one type in the model, so hashes differ as their values do
GetAllIocs ==
  /\ LET group(field) ==
           LET vs == FirstSeen(items, field, <<>>)
           IN [k \in 1..Len(vs) |->
                 [value |-> vs[k],
                  source_item |-> ItemRef(Head(Listing(items, field, vs[k])))]]
         hashes == FirstSeen(items, "hashes", <<>>)
     IN last' = [op |-> "get_all_iocs",
                 ret |-> [ips |-> group("ips"), domains |-> group("domains"),
                          urls |-> group("urls"),
                          hashes |-> [k \in 1..Len(hashes) |->
                                        [value |-> hashes[k].value,
                                         type |-> hashes[k].type,
                                         source_item |->
                                            ItemRef(Head(Listing(items, "hashes",
                                                                 hashes[k])))]]]]
  /\ UNCHANGED <<items, id_index, feed_iocs, feed_cves, feed_last_updated, clock>>
  /\ UNCHANGED others

\* threat_data after one pass of an inner loop of get_all_threats: a new name
\* gets an entry of the loop's type, the count goes up and the document is
\* listed, whether or not the name came up before
ThreatAdd(threat_data, name, type, item) ==
  LET ref == [id |-> item.id, title |-> item.title]
  IN IF \E k \in 1..Len(threat_data) : threat_data[k].name = name
     THEN [k \in 1..Len(threat_data) |->
             IF threat_data[k].name = name
             THEN [threat_data[k] EXCEPT !.count = @ + 1, !.items = Append(@, ref)]
             ELSE threat_data[k]]
     ELSE Append(threat_data, [name |-> name, type |-> type, count |-> 1, items |-> <<ref>>])

RECURSIVE ThreatNamesLoop(_, _, _, _)
ThreatNamesLoop(threat_data, names, type, item) ==
  IF names = <<>> THEN threat_data
  ELSE ThreatNamesLoop(ThreatAdd(threat_data, Head(names), type, item),
                       Tail(names), type, item)

\* the loop over self.items: the malware list of a document, then its actors
RECURSIVE ThreatData(_, _)
ThreatData(its, threat_data) ==
  IF its = <<>> THEN threat_data
  ELSE LET extracted == Head(its).ext
           after == ThreatNamesLoop(threat_data, ExtGet(extracted, "malware"),
                                    "malware", Head(its))
       IN ThreatData(Tail(its),
                     ThreatNamesLoop(after, ExtGet(extracted, "actors"), "actor", Head(its)))

\* get_all_threats: the entries of threat_data, by count descending
get_all_threats(its) ==
  LET threat_data == ThreatData(its, <<>>)
      keyed == SortDesc([k \in 1..Len(threat_data) |->
                           [key |-> threat_data[k].count, val |-> threat_data[k]]])
  IN [k \in 1..Len(keyed) |-> keyed[k].val]

GetAllThreats ==
  /\ last' = [op |-> "get_all_threats", ret |-> get_all_threats(items)]
  /\ UNCHANGED <<items, id_index, feed_iocs, feed_cves, feed_last_updated, clock>>
  /\ UNCHANGED others

(***************************************************************************)
(* store.py: reading the feed collections                                  *)
(***************************************************************************)
\* the records of the sources in dictionary order, or of the one source named
RECURSIVE FeedRecords(_, _)
FeedRecords(d, source) ==
  IF Truthy(source) THEN DictGet(d, source)
  ELSE IF d = <<>> THEN <<>>
  ELSE Head(d).items \o FeedRecords(Tail(d), source)

GetFeedIocs(source, ioc_type, threat_type, limit) ==
  /\ LET keep(ioc) == /\ Truthy(ioc_type) => ioc.ioc_type = ioc_type
                      /\ Truthy(threat_type) => ioc.threat_type = threat_type
     IN last' = [op |-> "get_feed_iocs",
                 ret |-> Take(SelectSeq(FeedRecords(feed_iocs, source), keep), limit)]
  /\ UNCHANGED <<items, id_index, feed_iocs, feed_cves, feed_last_updated, clock>>
  /\ UNCHANGED others

\* date_added as a sort key: ISO dates compare as their years do in the model
DateKey(cve) ==
  IF cve.date_added = "2021-12-10" THEN 2021
  ELSE IF cve.date_added = "2025-02-01" THEN 2025
  ELSE 0

\* get_feed_cves: all_cves is a list of its own, sorted after it is built
GetFeedCves(source, ransomware_only, limit) ==
  /\ LET keep(cve) == ransomware_only => cve.known_ransomware
         all_cves == SelectSeq(FeedRecords(feed_cves, source), keep)
         keyed == SortDesc([k \in 1..Len(all_cves) |->
                              [key |-> DateKey(all_cves[k]), val |-> all_cves[k]]])
     IN last' = [op |-> "get_feed_cves",
                 ret |-> Take([k \in 1..Len(keyed) |-> keyed[k].val], limit)]
  /\ UNCHANGED <<items, id_index, feed_iocs, feed_cves, feed_last_updated, clock>>
  /\ UNCHANGED others

RECURSIVE CountRecords(_)
CountRecords(d) == IF d = <<>> THEN 0 ELSE Len(Head(d).items) + CountRecords(Tail(d))

\* get_feed_stats: the totals, the per-source counts, the ransomware CVEs and
\* the feed_last_updated dictionary itself
GetFeedStats ==
  /\ LET flagged(cve) == cve.known_ransomware
     IN last' = [op |-> "get_feed_stats",
                 ret |-> [total_feed_iocs |-> CountRecords(feed_iocs),
                          total_feed_cves |-> CountRecords(feed_cves),
                          by_source |-> [k \in DictKeys(feed_iocs) \cup DictKeys(feed_cves) |->
                                           IF DictHas(feed_cves, k)
                                           THEN Len(DictGet(feed_cves, k))
                                           ELSE Len(DictGet(feed_iocs, k))],
                          ransomware_cves |->
                             Len(SelectSeq(FeedRecords(feed_cves, None), flagged)),
                          last_updated |-> feed_last_updated]]
  /\ UNCHANGED <<items, id_index, feed_iocs, feed_cves, feed_last_updated, clock>>
  /\ UNCHANGED others

(***************************************************************************)
(* main.py: GET /api/items/{item_id}                                       *)
(***************************************************************************)
LifeContent == "Emotet returns. Patch CVE-2021-44228 now."

\* re.split(r'(?<=[.!?])\s+', text)
Sentences(text) ==
  IF text = LifeContent THEN <<"Emotet returns.", "Patch CVE-2021-44228 now.">>
  ELSE <<text>>

\* entity.upper() in sentence.upper(), entity.lower() in sentence.lower()
SentenceNames(sentence, entity) ==
  \/ sentence = "Emotet returns." /\ entity = "Emotet"
  \/ sentence = "Patch CVE-2021-44228 now." /\ entity = "CVE-2021-44228"

\* one snippet per entity that some sentence names: the first such sentence
RECURSIVE SnippetsFor(_, _, _)
SnippetsFor(entities, sentences, type) ==
  IF entities = <<>> THEN <<>>
  ELSE LET names(s) == SentenceNames(s, Head(entities))
           hits == SelectSeq(sentences, names)
       IN (IF hits = <<>> THEN <<>>
           ELSE <<[entity |-> Head(entities), snippet |-> Head(hits), type |-> type]>>)
          \o SnippetsFor(Tail(entities), sentences, type)

\* get_evidence_snippets; the sentences of the model are shorter than 300
\* characters
get_evidence_snippets(text, entities) ==
  Take(SnippetsFor(Take(entities.cves, 3), Sentences(text), "cve")
       \o SnippetsFor(Take(entities.threats, 3), Sentences(text), "threat"), 5)

\* the get_item endpoint on a store value: the dict store.get_item returns is
\* the stored one, held by self.items and self._id_index alike.  'extracted'
\* is a dict of twelve keys, hence truthy.
GetItemEndpointOp(st, item_id) ==
  IF item_id \notin DOMAIN st.id_index
  THEN [items |-> st.items, id_index |-> st.id_index, ret |-> [status |-> 404]]
  ELSE LET item == st.id_index[item_id]
           shown == [f \in DOMAIN item \cup {"evidence"} |->
                      IF f = "evidence" THEN get_evidence_snippets(item.content, item.ext)
                      ELSE item[f]]
       IN IF Truthy(item.content)
          THEN [items |-> [i \in 1..Len(st.items) |->
                             IF st.items[i].id = item_id THEN shown ELSE st.items[i]],
                id_index |-> [st.id_index EXCEPT ![item_id] = shown],
                ret |-> [status |-> 200, item |-> shown]]
          ELSE [items |-> st.items, id_index |-> st.id_index,
                ret |-> [status |-> 200, item |-> item]]

GetItemEndpoint(item_id) ==
  /\ LET r == GetItemEndpointOp(Store, item_id)
     IN /\ items' = r.items
        /\ id_index' = r.id_index
        /\ last' = [op |-> "GET /api/items", arg |-> item_id, ret |-> r.ret]
  /\ UNCHANGED <<feed_iocs, feed_cves, feed_last_updated, clock>>
  /\ UNCHANGED others

(***************************************************************************)
(* The life of stored documents: add_item, clear, the item endpoint and    *)
(* every read operation, over a store whose feed collections are filled.   *)
(***************************************************************************)
LifeExt(ext, malware, actors) ==
  [cves |-> ext.cves, ips |-> ext.ips, domains |-> ext.domains, urls |-> ext.urls,
   hashes |-> ext.hashes, threats |-> malware \o actors, malware |-> malware,
   actors |-> actors, tags |-> <<>>]

\* an article with content, a second article at the same url, an uploaded
\* report, an article that has a description only and no date
LifeDocs ==
  {[url |-> "u1", title |-> "Emotet returns", source |-> "bleepingcomputer",
    content |-> LifeContent, description |-> "", date |-> DocDate("aware", 8),
    ext |-> LifeExt(ExtA, <<"Emotet">>, <<>>)],
   [url |-> "u1", title |-> "Emotet", source |-> "gbhackers",
    content |-> LifeContent, description |-> "", date |-> DocDate("aware", 1),
    ext |-> LifeExt(ExtA, <<"Emotet">>, <<>>)],
   [url |-> None, title |-> "report.pdf", source |-> "pdf",
    content |-> LifeContent, description |-> "", date |-> DocDate("aware", 1),
    ext |-> LifeExt(ExtB, <<"Emotet">>, <<"Evil Corp">>)],
   [url |-> "u2", title |-> "Patch Tuesday", source |-> "bleepingcomputer",
    content |-> "", description |-> "Patch Tuesday", date |-> DocDate("missing", 0),
    ext |-> LifeExt(ExtEmpty, <<>>, <<>>)]}

LifeIds == {GenId(n) : n \in 0..(MaxAdds - 1)}

LifeFeedIocs ==
  <<[source |-> "threatfox", items |-> <<IocEvil, IocEmotet>>],
    [source |-> "urlhaus", items |-> <<IocPhish>>]>>
LifeFeedCves == <<[source |-> "cisa_kev", items |-> <<CveLog4j, CveEvil>>]>>

LifeQueries == {[ParsedQuery EXCEPT !.keywords = <<"Emotet">>, !.time_range = "7d"]}

InitLifecycle ==
  /\ items = <<>>
  /\ id_index = <<>>
  /\ feed_iocs = LifeFeedIocs
  /\ feed_cves = LifeFeedCves
  /\ feed_last_updated = [k \in {"threatfox", "urlhaus", "cisa_kev"} |-> 0]
  /\ clock = 0
  /\ last = NoCall
  /\ net = NoRequest
  /\ sync = Idle
  /\ raw_query = <<>>
  /\ parsed \in LifeQueries
  /\ news = NoNews
  /\ doc_text = NoText

NextLifecycle ==
  \/ \E doc \in LifeDocs : AddItem(doc)
  \/ Clear
  \/ \E id \in LifeIds : GetItemEndpoint(id)
  \/ \E id \in LifeIds : GetItem(id)
  \/ GetAllItems
  \/ \E source \in {"pdf", "bleepingcomputer"} : GetItemsBySource(source)
  \/ GetStats
  \/ GetAllCves
  \/ GetAllIocs
  \/ GetAllThreats
  \/ \E filter \in {<<None, None>>, <<"urlhaus", "ip">>} :
        GetFeedIocs(filter[1], filter[2], None, 500)
  \/ \E ransomware_only \in BOOLEAN : GetFeedCves(None, ransomware_only, 1)
  \/ GetFeedStats
  \/ \E limit \in {1, 100} : SearchFeeds("evil", limit)
  \/ FilterItems
  \/ SearchEndpoint

SpecLifecycle == InitLifecycle /\ [][NextLifecycle]_vars

\* add_item, add_items, clear and get_item on documents with and without an
\* identifier of their own
NextIds ==
  \/ \E doc \in IdDocs : AddItem(doc)
  \/ \E d1, d2 \in IdDocs : AddItems(<<d1, d2>>)
  \/ Clear
  \/ \E item_id \in SuppliedIds \cup {GenId(n) : n \in 0..MaxAdds} : GetItem(item_id)

SpecIds == InitStore /\ [][NextIds]_vars

(***************************************************************************)
(* extractors.py: extract_hashes                                           *)
(***************************************************************************)
\* A word of the text: a run of len hexadecimal digits standing between word
\* boundaries, told apart by v and written in upper or lower case, or (hex
\* FALSE) a word that is no such run.
TextWord(hex, len, v, upper) == [hex |-> hex, len |-> len, v |-> v, upper |-> upper]

\* match.lower()
HashLower(word) == [word EXCEPT !.upper = FALSE]

\* PATTERN.findall(text) for \b[a-fA-F0-9]{n}\b: the runs of exactly n digits,
\* in text order
FindAll(n, words) ==
  LET run(w) == w.hex /\ w.len = n IN SelectSeq(words, run)

\* a loop that appends every match
RECURSIVE HashLoop_NoSeen(_, _, _)
HashLoop_NoSeen(matches, type, acc) ==
  IF matches = <<>> THEN acc
  ELSE HashLoop_NoSeen(Tail(matches), type,
         [seen |-> acc.seen \cup {HashLower(Head(matches))},
          result |-> Append(acc.result, [type |-> type, value |-> HashLower(Head(matches))])])

\* one of the three loops of extract_hashes over the matches of its pattern
RECURSIVE HashLoop(_, _, _)
HashLoop(matches, type, acc) ==
  IF matches = <<>> THEN acc
  ELSE LET hash_lower == HashLower(Head(matches))
       IN HashLoop(Tail(matches), type,
            IF hash_lower \notin acc.seen
            THEN [seen |-> acc.seen \cup {hash_lower},
                  result |-> Append(acc.result, [type |-> type, value |-> hash_lower])]
            ELSE acc)

\* extract_hashes: the SHA256 loop, then the SHA1 loop, then the MD5 loop, on
\* one result list and one seen set
extract_hashes(words) ==
  LET sha256 == HashLoop(FindAll(64, words), "sha256", [seen |-> {}, result |-> <<>>])
      sha1 == HashLoop(FindAll(40, words), "sha1", sha256)
      md5 == HashLoop(FindAll(32, words), "md5", sha1)
  IN md5.result

\* extract_all on the text at hand; of the record it returns the hashes list
\* is kept, the other extractors do not see it
ExtractAll ==
  /\ last' = [op |-> "extract_all", arg |-> doc_text,
              ret |-> [hashes |-> extract_hashes(doc_text)]]
  /\ UNCHANGED <<items, id_index, feed_iocs, feed_cves, feed_last_updated, clock,
                 net, sync, raw_query, parsed, news, doc_text>>

\* texts of up to MaxWords words: digests of the three lengths, in either
\* case, a run that is too short, a plain word
MaxWords == 3
TextWords ==
  {TextWord(TRUE, n, v, u) : n \in {32, 40, 64}, v \in {"a", "b"}, u \in BOOLEAN}
    \cup {TextWord(TRUE, 30, "a", FALSE), TextWord(FALSE, 0, "found", FALSE)}

InitHashes ==
  /\ items = <<>>
  /\ id_index = <<>>
  /\ feed_iocs = <<>>
  /\ feed_cves = <<>>
  /\ feed_last_updated = <<>>
  /\ clock = 0
  /\ last = NoCall
  /\ net = NoRequest
  /\ sync = Idle
  /\ raw_query = <<>>
  /\ parsed = ParsedQuery
  /\ news = NoNews
  /\ doc_text \in SeqsUpTo(TextWords, MaxWords)

NextHashes == ExtractAll

SpecHashes == InitHashes /\ [][NextHashes]_vars

(***************************************************************************)
(* extractors.py: extract_threats, and the threat counts of the store      *)
(***************************************************************************)
\* the names of the two lists that the texts of the model mention; LockBit is
\* in both lists
MALWARE_FAMILIES == <<"Emotet", "LockBit">>
THREAT_ACTORS == <<"Lazarus", "LockBit">>

\* name.lower() in text_lower, for a text given as its words and names of one
\* word
MentionedIn(text, name) == \E k \in 1..Len(text) : Lower(text[k]) = Lower(name)

RECURSIVE Distinct(_, _)
Distinct(names, seen) ==
  IF names = <<>> THEN seen
  ELSE Distinct(Tail(names),
                IF Head(names) \in SeqToSet(seen) THEN seen ELSE Append(seen, Head(names)))

\* extract_threats: the names of each list found in the text, in list order;
\* all_threats is list(set(...)), each name once
extract_threats(text) ==
  LET found_malware(name) == MentionedIn(text, name)
      malware_found == SelectSeq(MALWARE_FAMILIES, found_malware)
      actors_found == SelectSeq(THREAT_ACTORS, found_malware)
  IN [threats |-> Distinct(malware_found \o actors_found, <<>>),
      malware |-> malware_found, actors |-> actors_found]

ThreatTexts ==
  {<<"LockBit", "hits", "hospital">>, <<"Emotet", "returns">>,
   <<"lazarus", "drops", "lockbit">>, <<"Patch", "Tuesday">>}

\* an article per text, its 'extracted' built by extract_threats
ThreatDocs ==
  {[url |-> None, title |-> JoinWith(text, " "), source |-> "bleepingcomputer",
    content |-> text,
    ext |-> [cves |-> <<>>, ips |-> <<>>, domains |-> <<>>, urls |-> <<>>, hashes |-> <<>>,
             threats |-> extract_threats(text).threats,
             malware |-> extract_threats(text).malware,
             actors |-> extract_threats(text).actors]] : text \in ThreatTexts}

NextThreats ==
  \/ \E doc \in ThreatDocs : AddItem(doc)
  \/ Clear
  \/ GetAllThreats
  \/ GetStats

SpecThreats == InitStore /\ [][NextThreats]_vars

(***************************************************************************)
(* main.py: sync_news, requests running concurrently on one event loop     *)
(***************************************************************************)
\* extract_all(content).to_dict() for the contents of the model's articles;
\* the products, geography and sectors lists are left out
extract_all(content) ==
  IF content = LifeContent
  THEN [cves |-> <<"CVE-2021-44228">>, ips |-> <<>>, domains |-> <<>>, urls |-> <<>>,
        hashes |-> <<>>, threats |-> <<"Emotet">>, malware |-> <<"Emotet">>,
        actors |-> <<>>, tags |-> <<"exploitation">>]
  ELSE LifeExt(ExtEmpty, <<>>, <<>>)

\* a dedup scan over the documents the request saw when it last ran
ScannedItems_Stale(st, seen) == seen

\* the list the dedup loop of add_item iterates: self.items as the call finds it
ScannedItems(st, seen) == st.items

\* store.add_item(article) from the handler of a request that last saw the
\* documents seen
NewsAddItem(st, article, seen) ==
  LET item == [f \in DOMAIN article \cup {"id", "added_at"} |->
                 IF f = "id" THEN GenId(st.clock)
                 ELSE IF f = "added_at" THEN st.clock
                 ELSE article[f]]
      k == FirstDuplicate(ScannedItems(st, seen), item)
  IN IF k # 0
     THEN [items |-> st.items, id_index |-> st.id_index, clock |-> st.clock + 1]
     ELSE [items |-> Append(st.items, item),
           id_index |-> [i \in DOMAIN st.id_index \cup {item.id} |->
                           IF i = item.id THEN item ELSE st.id_index[i]],
           clock |-> st.clock + 1]

\* the loop over all_articles: an article with neither content nor
\* description is passed over, the others get their 'extracted' and are added
RECURSIVE StoreArticles(_, _, _)
StoreArticles(st, articles, seen) ==
  IF articles = <<>>
  THEN [items |-> st.items, id_index |-> st.id_index, clock |-> st.clock, processed |-> 0]
  ELSE LET article == Head(articles)
           content == IF Truthy(article.content) THEN article.content
                      ELSE article.description
       IN IF ~Truthy(content) THEN StoreArticles(st, Tail(articles), seen)
          ELSE LET with == [f \in DOMAIN article \cup {"ext"} |->
                              IF f = "ext" THEN extract_all(content) ELSE article[f]]
                   rest == StoreArticles(NewsAddItem(st, with, seen), Tail(articles), seen)
               IN [rest EXCEPT !.processed = @ + 1]

\* requests that may run at once
MaxNews == 2

\* articles the requests hold and have not handed to add_item yet
RECURSIVE Held(_)
Held(reqs) ==
  IF reqs = <<>> THEN 0
  ELSE (IF Head(reqs).pc = "scraping" THEN Len(Head(reqs).all_articles) ELSE 0)
       + Held(Tail(reqs))

\* a request arrives: the handler runs up to its first await
NewsStart(n) ==
  /\ Len(news) < MaxNews
  /\ news' = Append(news, [pc |-> "scraping", pending |-> n, all_articles |-> <<>>,
                           seen |-> items, processed |-> 0])
  /\ UNCHANGED <<items, id_index, feed_iocs, feed_cves, feed_last_updated, clock, last,
                 net, sync, raw_query, parsed, doc_text>>

\* await scrape_source(...) of request r returns articles (none when it
\* raised); the handler runs on to its next await
NewsScrape(r, articles) ==
  /\ news[r].pc = "scraping"
  /\ news[r].pending > 0
  /\ Held(news) + Len(articles) + clock <= MaxAdds
  /\ news' = [news EXCEPT ![r].all_articles = @ \o articles,
                          ![r].pending = @ - 1,
                          ![r].seen = items]
  /\ UNCHANGED <<items, id_index, feed_iocs, feed_cves, feed_last_updated, clock, last,
                 net, sync, raw_query, parsed, doc_text>>

\* after the last scrape the handler runs to its return without an await:
\* the whole loop over all_articles, then get_stats for the response
NewsStore(r) ==
  /\ news[r].pc = "scraping"
  /\ news[r].pending = 0
  /\ LET done == StoreArticles(Store, news[r].all_articles, news[r].seen)
     IN /\ items' = done.items
        /\ id_index' = done.id_index
        /\ clock' = done.clock
        /\ news' = [news EXCEPT ![r].pc = "done", ![r].processed = done.processed]
        /\ last' = [op |-> "sync_news", request |-> r,
                    articles_processed |-> done.processed,
                    stats |-> GetStatsOp(done.items)]
  /\ UNCHANGED <<feed_iocs, feed_cves, feed_last_updated, net, sync, raw_query, parsed, doc_text>>

\* two articles at one url under different titles, a third repeating the
\* first's title and source under another url, one with a description only,
\* one with neither content nor description
NewsArticles ==
  {[url |-> "u1", title |-> "Emotet returns", source |-> "bleepingcomputer",
    content |-> LifeContent, description |-> "", date |-> DocDate("aware", 1)],
   [url |-> "u1", title |-> "Emotet", source |-> "gbhackers",
    content |-> LifeContent, description |-> "", date |-> DocDate("aware", 1)],
   [url |-> "u2", title |-> "Emotet returns", source |-> "bleepingcomputer",
    content |-> "", description |-> "Patch Tuesday", date |-> DocDate("aware", 8)],
   [url |-> "u3", title |-> "Patch Tuesday", source |-> "gbhackers",
    content |-> "", description |-> "", date |-> DocDate("aware", 8)]}

\* what one scrape_source call yields: nothing (also when it raised), one
\* article, or the two articles that share a url
ScrapeResults ==
  {<<>>} \cup {<<a>> : a \in NewsArticles}
         \cup {<<a, b>> : a, b \in {c \in NewsArticles : c.url = "u1"}}

NextNews ==
  \/ \E n \in {1, 2} : NewsStart(n)
  \/ \E r \in 1..Len(news) : \E articles \in ScrapeResults : NewsScrape(r, articles)
  \/ \E r \in 1..Len(news) : NewsStore(r)

SpecNews == InitStore /\ [][NextNews]_vars

(***************************************************************************)
(* Claims about the document store.                                        *)
(***************************************************************************)
\* the last two calls were add_item on documents carrying the same non-empty url
TwoAddsSameUrl ==
  /\ last.op = "add_item"
  /\ last.prev.op = "add_item"
  /\ Truthy(last.arg.url)
  /\ last.prev.arg.url = last.arg.url

SameKey(d, e) == d.title = e.title /\ d.source = e.source

\* some stored document with another url has the (title, source) of one of the two
OtherUrlSharesKey ==
  \E i \in 1..Len(items) :
     /\ items[i].url # last.arg.url
     /\ (SameKey(items[i], last.arg) \/ SameKey(items[i], last.prev.arg))

\* C1 as stated: add_item on two documents with the same non-empty url returns
\* the same identifier both times and the second call stores nothing, whatever
\* the store holds and whatever the other fields are.
C1_SameUrlSameId ==
  TwoAddsSameUrl => (last.ret = last.prev.ret /\ Len(items) = last.count_before)

\* C1 amended: the same, provided no stored document with a different url has
\* the (title, source) pair of either of the two documents.
C1_SameUrlSameIdUnlessKeyClash ==
  (TwoAddsSameUrl /\ ~OtherUrlSharesKey)
     => (last.ret = last.prev.ret /\ Len(items) = last.count_before)

\* two add_item calls with one url and different titles, over a store that
\* already holds another document, answered with one identifier
C1_Witness ==
  /\ TwoAddsSameUrl
  /\ ~OtherUrlSharesKey
  /\ last.arg # last.prev.arg
  /\ Len(items) >= 2
  /\ last.ret = last.prev.ret
  /\ Len(items) = last.count_before

\* C2: the store never holds two documents with the same non-empty url, nor two
\* documents with the same (title, source) pair.
C2_NoDuplicateDocuments ==
  \A i, j \in 1..Len(items) :
     i < j => /\ ~(Truthy(items[i].url) /\ items[i].url = items[j].url)
              /\ ~SameKey(items[i], items[j])

\* an add_items call whose second document repeated a stored (title, source)
\* pair under a new url and was turned away, after a clear
C2_Witness ==
  /\ last.op = "add_items"
  /\ Len(items) = last.count_before + 1
  /\ last.ret[1] = last.ret[2]
  /\ last.arg[1].url # last.arg[2].url
  /\ clock = MaxAdds

(***************************************************************************)
(* Claims about get_stats.                                                 *)
(***************************************************************************)
DocIps(d) == SeqToSet(d.ext.ips)
DocDomains(d) == SeqToSet(d.ext.domains)
DocUrlIocs(d) == SeqToSet(d.ext.urls)
DocHashValues(d) == {d.ext.hashes[i].value : i \in 1..Len(d.ext.hashes)}

\* C7: total_iocs is the number of distinct ips plus distinct domains plus
\* distinct hash values plus distinct urls over all stored documents.
C7_TotalIocsCountsDistinct ==
  GetStatsOp(items).total_iocs =
      Cardinality(UNION {DocIps(items[i]) : i \in 1..Len(items)})
    + Cardinality(UNION {DocDomains(items[i]) : i \in 1..Len(items)})
    + Cardinality(UNION {DocHashValues(items[i]) : i \in 1..Len(items)})
    + Cardinality(UNION {DocUrlIocs(items[i]) : i \in 1..Len(items)})

\* get_stats answered over two documents that share an ip: fewer indicators
\* than the documents list one by one
C7_Witness ==
  /\ last.op = "get_stats"
  /\ \E i, j \in 1..Len(items) : i < j /\ DocIps(items[i]) \cap DocIps(items[j]) # {}
  /\ last.ret.total_iocs = GetStatsOp(items).total_iocs
  /\ last.ret.total_iocs < PerDocIocs(items)

(***************************************************************************)
(* Claims about the feed collections.                                      *)
(***************************************************************************)
\* C9: update_feed_iocs(s, items) and update_feed_cves(s, items) make the
\* snapshot of s exactly items, and leave every other source's snapshot and
\* the document collection as they were.
C9_UpdateReplacesOneSnapshot ==
  [][ /\ last'.op = "update_feed_iocs" =>
           /\ DictGet(feed_iocs', last'.source) = last'.arg
           /\ \A t \in DictKeys(feed_iocs) \cup DictKeys(feed_iocs') :
                 t # last'.source =>
                    /\ DictHas(feed_iocs, t) /\ DictHas(feed_iocs', t)
                    /\ DictGet(feed_iocs', t) = DictGet(feed_iocs, t)
           /\ feed_cves' = feed_cves
           /\ items' = items /\ id_index' = id_index
      /\ last'.op = "update_feed_cves" =>
           /\ DictGet(feed_cves', last'.source) = last'.arg
           /\ \A t \in DictKeys(feed_cves) \cup DictKeys(feed_cves') :
                 t # last'.source =>
                    /\ DictHas(feed_cves, t) /\ DictHas(feed_cves', t)
                    /\ DictGet(feed_cves', t) = DictGet(feed_cves, t)
           /\ feed_iocs' = feed_iocs
           /\ items' = items /\ id_index' = id_index ]_vars

\* update_feed_iocs has replaced a non-empty snapshot by a different non-empty
\* one while another source, the CVE collection and a document were stored
C9_Witness ==
  /\ last.op = "update_feed_iocs"
  /\ last.replaced # <<>>
  /\ last.arg # <<>>
  /\ \A i \in 1..Len(last.replaced) : last.replaced[i] \notin SeqToSet(last.arg)
  /\ DictGet(feed_iocs, last.source) = last.arg
  /\ \E t \in DictKeys(feed_iocs) : t # last.source
  /\ items # <<>>

\* C8: search_feeds never returns more than limit IOCs nor more than limit
\* CVEs, for any feed contents and any limit >= 1.
C8_SearchResultsWithinLimit ==
  last.op = "search_feeds" =>
     /\ Len(last.ret.iocs) <= last.limit
     /\ Len(last.ret.cves) <= last.limit

(***************************************************************************)
(* Claims about the feed adapters.                                         *)
(***************************************************************************)
\* a CSV line with some but not all of the positional fields
ShortRow(line, fieldnames) ==
  ~line.comment /\ 0 < Len(line.cols) /\ Len(line.cols) < Len(fieldnames)

\* a CSV line with every positional field and a usable primary field
FullThreatfoxRow(line) ==
  /\ ~line.comment
  /\ Len(line.cols) = Len(ThreatfoxFields)
  /\ Strip(line.cols[3]) # ""
FullMalwarebazaarRow(line) ==
  /\ ~line.comment
  /\ Len(line.cols) = Len(MalwarebazaarFields)
  /\ Len(Strip(line.cols[2])) = 64

\* a URLhaus value that is no entry object, or whose tags cannot be extended
BadUrlhausValue(v) ==
  v.shape \in {"emptylist", "string"} \/ (v.tagsKind = "string" /\ Truthy(v.threat))

HasRecord(recs, id, value) ==
  \E k \in 1..Len(recs) : recs[k].id = id /\ recs[k].ioc_value = value

\* C10: in every adapter a row or entry that cannot be parsed is skipped alone:
\* each well-formed row after it is still emitted, unless the limit is reached.
C10_BadRowSkippedAlone ==
  /\ (last.op = "fetch_threatfox" /\ net.resp.status = "ok") =>
        \A i, j \in 1..Len(net.resp.body) :
           (i < j /\ ShortRow(net.resp.body[i], ThreatfoxFields)
                  /\ FullThreatfoxRow(net.resp.body[j]))
             => \/ HasRecord(last.ret.items, net.resp.body[j].cols[2],
                             net.resp.body[j].cols[3])
                \/ Len(last.ret.items) >= last.limit
  /\ (last.op = "fetch_malwarebazaar" /\ net.resp.status = "ok") =>
        \A i, j \in 1..Len(net.resp.body) :
           (i < j /\ ShortRow(net.resp.body[i], MalwarebazaarFields)
                  /\ FullMalwarebazaarRow(net.resp.body[j]))
             => \/ HasRecord(last.ret.items, First12(net.resp.body[j].cols[2]),
                             net.resp.body[j].cols[2])
                \/ Len(last.ret.items) >= last.limit
  /\ (last.op = "fetch_urlhaus" /\ net.resp.status = "ok"
        /\ net.resp.body.kind = "dict") =>
        \A i, j \in 1..Len(net.resp.body.entries) :
           (i < j /\ BadUrlhausValue(net.resp.body.entries[i].val)
                  /\ ~BadUrlhausValue(net.resp.body.entries[j].val))
             => \/ HasRecord(last.ret.items, net.resp.body.entries[j].id,
                             net.resp.body.entries[j].val.url)
                \/ Len(last.ret.items) >= last.limit

(***************************************************************************)
(* Claims about sync_feeds.                                                *)
(***************************************************************************)
Reported(entries, source) == \E k \in 1..Len(entries) : entries[k].source = source
Occurrences(names, source) == Cardinality({k \in 1..Len(names) : names[k] = source})

\* the last pass of the finished loop over source that stored a snapshot
LastStored(source) ==
  CHOOSE i \in 1..Len(sync.log) :
     /\ sync.log[i].source = source
     /\ sync.log[i].fetched /\ ~sync.log[i].raised
     /\ \A j \in (i + 1)..Len(sync.log) :
           ~(sync.log[j].source = source /\ ~sync.log[j].raised)

SnapshotOf(source) ==
  IF source = "cisa_kev" THEN DictGet(feed_cves, source) ELSE DictGet(feed_iocs, source)

\* C3: when the fetch or the parse of a requested source fails (network error,
\* non-2xx response, undecodable payload), the result of the sync carries an
\* error entry for that source and does not report it as synced.
C3_FailedFetchIsReported ==
  sync.pc = "done" =>
    \A i \in 1..Len(sync.log) :
       sync.log[i].failed =>
          /\ Reported(sync.errors, sync.log[i].source)
          /\ Occurrences(sync.sources, sync.log[i].source) = 1
                => ~Reported(sync.synced_sources, sync.log[i].source)

\* C4: a failure of one requested source never prevents the others from being
\* processed: every requested known source is fetched, at whatever position,
\* and the snapshot of each one that returned is the stored one.
C4_FailureDoesNotStopOthers ==
  sync.pc = "done" =>
    /\ Len(sync.log) = Len(sync.sources)
    /\ \A i \in 1..Len(sync.sources) :
          sync.sources[i] \in FetcherNames =>
             /\ sync.log[i].source = sync.sources[i]
             /\ sync.log[i].fetched
             /\ ~sync.log[i].raised =>
                   /\ Reported(sync.synced_sources, sync.sources[i])
                   /\ SnapshotOf(sync.sources[i]) = sync.log[LastStored(sync.sources[i])].items

\* a finished sync of two sources whose first fetch raised and whose second
\* source was fetched and stored with its records
C4_Witness ==
  /\ sync.pc = "done"
  /\ Len(sync.sources) = 2
  /\ sync.sources[1] # sync.sources[2]
  /\ sync.log[1].raised
  /\ Reported(sync.errors, sync.sources[1])
  /\ sync.log[2].fetched /\ ~sync.log[2].failed
  /\ sync.log[2].items # <<>>
  /\ SnapshotOf(sync.sources[2]) = sync.log[2].items

UnknownNamesPassed == {sync.log[i].source : i \in 1..Len(sync.log)} \ FetcherNames

\* C5: a sync given a name that is in no table does not raise: it records an
\* error entry naming it, the feed collections hold nothing under that name,
\* and the names after it are processed.
C5_UnknownSourceIsAnErrorEntry ==
  /\ \A name \in UnknownNamesPassed :
        /\ \E k \in 1..Len(sync.errors) : sync.errors[k] = ErrorEntry(name, "unknown")
        /\ ~Reported(sync.synced_sources, name)
        /\ name \notin DictKeys(feed_iocs) \cup DictKeys(feed_cves)
        /\ name \notin DOMAIN feed_last_updated
  /\ sync.pc = "done" =>
        /\ last.op = "sync_feeds"
        /\ last.ret.errors = sync.errors
        /\ \A i \in 1..Len(sync.sources) :
              /\ i <= Len(sync.log)
              /\ sync.log[i].source = sync.sources[i]
              /\ sync.log[i].fetched = (sync.sources[i] \in FetcherNames)

\* a finished sync whose first name is unknown and whose second name was
\* fetched and stored
C5_Witness ==
  /\ sync.pc = "done"
  /\ Len(sync.sources) = 2
  /\ sync.sources[1] \notin FetcherNames
  /\ sync.errors = <<ErrorEntry(sync.sources[1], "unknown")>>
  /\ sync.sources[2] \in FetcherNames
  /\ sync.log[2].fetched
  /\ sync.log[2].items # <<>>
  /\ SnapshotOf(sync.sources[2]) = sync.log[2].items
  /\ last.ret.synced_sources = <<SyncedEntry(sync.sources[2], Len(sync.log[2].items))>>

(***************************************************************************)
(* Claims about parse_query.                                               *)
(***************************************************************************)
\* the query holds one of the words of the "ioc" query type
HasIocWord(query) == SearchAny(TYPE_INDICATORS[2].patterns, query)

\* C6: for every query that holds an IoC word and an embedded CVE identifier,
\* parse_query returns query_type "ioc" and the identifier in upper case as
\* cve_id, as for "show IoCs for CVE-2025-1234".
C6_IocWordWithCveIsIoc ==
  (last.op = "parse_query" /\ HasIocWord(last.arg) /\ CveMatchesIn(last.arg) # {})
     => /\ last.ret.query_type = "ioc"
        /\ last.ret.cve_id \in {"CVE-2025-1234", "CVE-2021-44228"}

\* C11: no feed adapter ever raises: whatever the payload, a JSON document of
\* an unexpected top-level shape included, the adapter returns a sequence of
\* records.
C11_AdaptersNeverRaise ==
  last.op \in {"fetch_threatfox", "fetch_malwarebazaar", "fetch_urlhaus"}
     => ~last.ret.raised

(***************************************************************************)
(* Claims about filter_items and generate_answer_summary.                  *)
(***************************************************************************)
NoConstraint(p) ==
  p.keywords = <<>> /\ ~Truthy(p.time_range) /\ ~Truthy(p.source) /\ ~Truthy(p.cve_id)

\* C12: filter_items with a ParsedQuery that has no keywords, no time range,
\* no source and no CVE id returns exactly the documents it was given, in the
\* order given, none dropped, added or modified.
C12_NoConstraintReturnsInput ==
  (last.op = "filter_items" /\ NoConstraint(last.parsed)) => last.ret = last.arg

\* filter_items was called without constraints on two different documents
C12_Witness ==
  /\ last.op = "filter_items"
  /\ NoConstraint(last.parsed)
  /\ Len(last.arg) = 2
  /\ last.arg[1] # last.arg[2]
  /\ last.ret = last.arg

\* the document passes the source, CVE and keyword constraints of p
PassesOthers(i, p) == KeywordStep(CveStep(SourceStep(<<i>>, p), p), p) = <<i>>

RangeDays(time_range) ==
  CASE time_range = "last_24h" -> 1
    [] time_range = "7d" -> 7
    [] time_range = "30d" -> 30

\* C13: with a time range set, a document whose date is missing or cannot be
\* parsed or compared passes the time-range step, so it is returned exactly
\* when the other constraints accept it; a document with a comparable date is
\* returned exactly when, besides, its date is not older than the cutoff.
C13_UndatedDocumentsPassTimeRange ==
  (last.op = "filter_items" /\ Truthy(last.parsed.time_range)) =>
     \A k \in 1..Len(last.arg) :
        LET i == last.arg[k]
        IN (i \in SeqToSet(last.ret)) <=>
              /\ PassesOthers(i, last.parsed)
              /\ i.date.kind = "aware" => i.date.age <= RangeDays(last.parsed.time_range)

\* a time-range filter that kept a document with an unparseable date and
\* dropped one dated before the cutoff
C13_Witness ==
  /\ last.op = "filter_items"
  /\ Truthy(last.parsed.time_range)
  /\ Len(last.arg) = 2
  /\ last.arg[1].date.kind = "garbled"
  /\ last.arg[2].date.kind = "aware"
  /\ last.arg[2].date.age > RangeDays(last.parsed.time_range)
  /\ PassesOthers(last.arg[2], last.parsed)
  /\ last.ret = <<last.arg[1]>>

\* the values of one extracted list over all the documents of a result set
ValuesIn(results, field) ==
  UNION {SeqToSet(results[k].ext[field]) : k \in 1..Len(results)}

DistinctIocs(results) ==
  Cardinality(ValuesIn(results, "ips")) + Cardinality(ValuesIn(results, "domains"))
    + Cardinality(ValuesIn(results, "hashes")) + Cardinality(ValuesIn(results, "urls"))

\* C19: for a non-empty result set, the IoC count reported by
\* generate_answer_summary is the number of distinct IoCs (ips, domains,
\* hashes, urls) of the result set: an indicator found in two result documents
\* is counted once, as the CVE and threat counts are.
C19_IocCountIsDistinct ==
  (last.op = "search" /\ last.results # <<>>) =>
     last.ret.iocs = DistinctIocs(last.results)

(***************************************************************************)
(* Claims about the keywords of parse_query.                               *)
(***************************************************************************)
\* the token, as a query of its own, is matched by one of the extraction
\* steps that run before extract_keywords
MatchedByExtraction(tok) ==
  \/ extract_time_range(<<tok>>) # None
  \/ extract_cve_id(<<tok>>) # None
  \/ extract_query_type(<<tok>>) # "all"
  \/ extract_entity_type(<<tok>>) # None
  \/ extract_source(<<tok>>) # None

\* C20: no keyword returned by parse_query is a token matched by an earlier
\* extraction step (time-range phrase, CVE identifier, query-type word,
\* entity-type hint such as "md5", source alias), nor a stop word, nor a token
\* of length 1.
C20_KeywordsAreUnmatchedTokens ==
  last.op = "parse_query" =>
     \A k \in 1..Len(last.arg) :
        LET w == JoinWith(last.arg[k], "-")
        IN w \in SeqToSet(last.ret.keywords) =>
              /\ ~MatchedByExtraction(last.arg[k])
              /\ Lower(w) \notin STOP_WORDS
              /\ Len(w) > 1

(***************************************************************************)
(* Claims about the hash-sample adapter.                                   *)
(***************************************************************************)
\* of the sha256 fields of the sample rows, those that are 64 hexadecimal
\* characters
IsHex64(value) == value \in {Sha256A, Sha256B}

\* C16: fetch_malwarebazaar emits a record for a row only if the row's sha256
\* field is exactly 64 hexadecimal characters: a shorter, longer or non-hex
\* value produces no record.
C16_OnlyHex64Emitted ==
  last.op = "fetch_malwarebazaar" =>
     \A k \in 1..Len(last.ret.items) : IsHex64(last.ret.items[k].ioc_value)

(***************************************************************************)
(* Claims about the life of a stored document.                             *)
(***************************************************************************)
\* C14: once a document is stored by add_item, no later operation (add_item
\* of other documents, lookup by identifier, listing, statistics, search)
\* changes one of its fields or adds a field to it: as long as it is stored,
\* the document under an identifier is the one add_item stored.
C14_StoredDocumentNeverChanges ==
  [][/\ \A id \in DOMAIN id_index :
          id \in DOMAIN id_index' => id_index'[id] = id_index[id]
     /\ \A i \in 1..Len(items) : \A j \in 1..Len(items') :
          items'[j].id = items[i].id => items'[j] = items[i]]_vars

\* C17: a stored document stays stored, and the number of stored documents
\* never decreases, until clear is called; clear removes every document at
\* once; no operation removes a single document.
C17_StoredUntilClear ==
  [][/\ last'.op # "clear" =>
          /\ Len(items') >= Len(items)
          /\ \A i \in 1..Len(items) : items'[i].id = items[i].id
          /\ DOMAIN id_index \subseteq DOMAIN id_index'
     /\ last'.op = "clear" => items' = <<>> /\ id_index' = <<>>]_vars

\* clear has just removed two or more documents at once
C17_Witness ==
  /\ last.op = "clear"
  /\ last.removed >= 2
  /\ items = <<>>
  /\ id_index = <<>>

ReadOps ==
  {"get_all_items", "get_item", "get_items_by_source", "get_stats", "get_all_cves",
   "get_all_iocs", "get_all_threats", "get_feed_iocs", "get_feed_cves",
   "get_feed_stats", "search_feeds", "filter_items", "search"}

\* C18: the read operations get_all_items, get_item, get_items_by_source,
\* get_stats, get_all_cves, get_all_iocs, get_all_threats, get_feed_iocs,
\* get_feed_cves, get_feed_stats, search_feeds, filter_items and
\* generate_answer_summary leave the documents and their order, the id
\* index, feed_iocs, feed_cves and feed_last_updated unchanged.
C18_ReadsLeaveStoreUnchanged ==
  [][last'.op \in ReadOps =>
        UNCHANGED <<items, id_index, feed_iocs, feed_cves, feed_last_updated>>]_vars

\* get_all_items has returned the documents in another order than the store
\* holds them in
C18_Witness ==
  /\ last.op = "get_all_items"
  /\ Len(items) >= 2
  /\ Len(last.ret) = Len(items)
  /\ last.ret # items
  /\ feed_iocs # <<>>

(***************************************************************************)
(* Claims about concurrent sync_news requests.                             *)
(***************************************************************************)
StoredUrls == {items[i].url : i \in {k \in 1..Len(items) : Truthy(items[k].url)}}
StoredKeys == {<<items[i].title, items[i].source>> : i \in 1..Len(items)}

\* C15: under every interleaving of concurrent sync_news requests, which
\* interleave only where one awaits the network, the store never holds two
\* documents with the same non-empty url or the same (title, source) pair:
\* there are as many stored documents as (title, source) pairs, and as many
\* documents with a url as urls.
C15_NoDuplicatesUnderConcurrentSyncs ==
  /\ Cardinality(StoredKeys) = Len(items)
  /\ Cardinality(StoredUrls) = Cardinality({k \in 1..Len(items) : Truthy(items[k].url)})

HoldsUrl(req, url) ==
  \E k \in 1..Len(req.all_articles) :
     req.all_articles[k].url = url /\ Truthy(req.all_articles[k].content)

\* two requests scraped an article at the same url while the store was still
\* empty, each ran its store loop after that, and one document is stored
C15_Witness ==
  /\ Len(news) >= 2
  /\ news[1].pc = "done" /\ news[2].pc = "done"
  /\ news[1].seen = <<>> /\ news[2].seen = <<>>
  /\ HoldsUrl(news[1], "u1") /\ HoldsUrl(news[2], "u1")
  /\ Len(news[1].all_articles) = 1 /\ Len(news[2].all_articles) = 1
  /\ Len(items) = 1

(***************************************************************************)
(* Claims about search_feeds, second part.                                 *)
(***************************************************************************)
\* the most entries a result list can hold for a collection of S sources
SearchCap(limit, S) == IF S = 0 THEN 0 ELSE limit + (S - 1)

\* C27: search_feeds breaks only the per-source loop: each result list has at
\* most limit + (S - 1) entries, S the number of sources of that feed
\* collection, and never more than limit when S = 1.
C27_SearchResultsWithinLimitPlusSources ==
  last.op = "search_feeds" =>
     /\ Len(last.ret.iocs) <= SearchCap(last.limit, Len(feed_iocs))
     /\ Len(last.ret.cves) <= SearchCap(last.limit, Len(feed_cves))
     /\ Len(feed_iocs) = 1 => Len(last.ret.iocs) <= last.limit
     /\ Len(feed_cves) = 1 => Len(last.ret.cves) <= last.limit

\* a search over three sources that returned limit + 2 indicators
C27_Witness ==
  /\ last.op = "search_feeds"
  /\ Len(feed_iocs) = 3
  /\ Len(last.ret.iocs) = last.limit + 2
  /\ Len(feed_cves) = 1
  /\ Len(last.ret.cves) = last.limit

(***************************************************************************)
(* Claims about sync_feeds, second part.                                   *)
(***************************************************************************)
StoredSnapshot(fi, fc, source) ==
  IF source = "cisa_kev" THEN DictGet(fc, source) ELSE DictGet(fi, source)

\* C30: when the fetch of a source fails during a feed sync (network error or
\* undecodable payload), the snapshot stored for that source before and its
\* last-updated timestamp are left unchanged: a failed resync never replaces
\* stored records with an empty snapshot.
C30_FailedResyncKeepsSnapshot ==
  [][(/\ Len(sync'.log) = Len(sync.log) + 1
      /\ sync'.log[Len(sync'.log)].failed
      /\ sync'.log[Len(sync'.log)].source \in DOMAIN feed_last_updated)
       => LET source == sync'.log[Len(sync'.log)].source
          IN /\ StoredSnapshot(feed_iocs', feed_cves', source)
                  = StoredSnapshot(feed_iocs, feed_cves, source)
             /\ feed_last_updated'[source] = feed_last_updated[source]]_vars

\* C22: when a feed sync with per-feed limit L has finished, every source it
\* reports as synced contributed at most L records: the reported count and the
\* size of the stored snapshot are both at most L.
C22_EverySourceWithinLimit ==
  sync.pc = "done" =>
     \A i \in 1..Len(sync.synced_sources) :
        LET e == sync.synced_sources[i]
        IN /\ e.count <= sync.limit
           /\ Len(StoredSnapshot(feed_iocs, feed_cves, e.source)) <= sync.limit

RECURSIVE IocKeys(_)
IocKeys(its) ==
  IF its = <<>> THEN <<>> ELSE <<<<Head(its).source, Head(its).id>>>> \o IocKeys(Tail(its))

\* C25: the indicator collection never holds two records with the same
\* (source, id) pair, whatever the adapters were handed.
C25_IndicatorIdentityUnique ==
  LET keys == IocKeys(FeedRecords(feed_iocs, None))
  IN \A i, j \in 1..Len(keys) : keys[i] = keys[j] => i = j

\* the constraints of a query that are active, each as a test on one document
SatisfiesSource(i, p) == Truthy(p.source) => Lower(i.source) = Lower(p.source)
SatisfiesTimeRange(i, p) ==
  Truthy(p.time_range) => PassesTimeRange(i, get_time_filter_date(p.time_range))
SatisfiesCve(i, p) ==
  Truthy(p.cve_id) => \E k \in 1..Len(i.ext.cves) : Upper(i.ext.cves[k]) = Upper(p.cve_id)
SatisfiesKeywords(i, p) == p.keywords # <<>> => MentionsAny(i, p.keywords)

SatisfiesAll(i, p) ==
  /\ SatisfiesSource(i, p)
  /\ SatisfiesTimeRange(i, p)
  /\ SatisfiesCve(i, p)
  /\ SatisfiesKeywords(i, p)

\* the four steps of filter_items applied in the order given by a permutation
FilterStep(n, results, p) ==
  CASE n = 1 -> SourceStep(results, p)
    [] n = 2 -> TimeRangeStep(results, p)
    [] n = 3 -> CveStep(results, p)
    [] n = 4 -> KeywordStep(results, p)

\* the 24 orders of the four steps
StepOrders ==
  {<<1, 2, 3, 4>>, <<1, 2, 4, 3>>, <<1, 3, 2, 4>>, <<1, 3, 4, 2>>, <<1, 4, 2, 3>>, <<1, 4, 3, 2>>,
   <<2, 1, 3, 4>>, <<2, 1, 4, 3>>, <<2, 3, 1, 4>>, <<2, 3, 4, 1>>, <<2, 4, 1, 3>>, <<2, 4, 3, 1>>,
   <<3, 1, 2, 4>>, <<3, 1, 4, 2>>, <<3, 2, 1, 4>>, <<3, 2, 4, 1>>, <<3, 4, 1, 2>>, <<3, 4, 2, 1>>,
   <<4, 1, 2, 3>>, <<4, 1, 3, 2>>, <<4, 2, 1, 3>>, <<4, 2, 3, 1>>, <<4, 3, 1, 2>>, <<4, 3, 2, 1>>}

FilterInOrder(o, its, p) ==
  FilterStep(o[4], FilterStep(o[3], FilterStep(o[2], FilterStep(o[1], its, p), p), p), p)

\* C23: filter_items returns exactly the input documents that satisfy every
\* active constraint of the query, in input order; filtering the result again
\* with the same query returns it unchanged; and every order of the four
\* steps gives the same result.
C23_FilterIsConjunctionInOrder ==
  last.op = "filter_items" =>
     LET ok(i) == SatisfiesAll(i, last.parsed)
     IN /\ last.ret = SelectSeq(last.arg, ok)
        /\ filter_items(last.ret, last.parsed) = last.ret
        /\ \A o \in StepOrders : FilterInOrder(o, last.arg, last.parsed) = last.ret

\* two documents of which the query with all four constraints keeps the second
C23_Witness ==
  /\ last.op = "filter_items"
  /\ Truthy(last.parsed.source) /\ Truthy(last.parsed.time_range)
  /\ Truthy(last.parsed.cve_id) /\ last.parsed.keywords # <<>>
  /\ Len(last.arg) = 2
  /\ last.ret = <<last.arg[2]>>
  /\ last.arg[1] # last.arg[2]

\* the position of a stored document in self.items
PositionIn(its, x) == CHOOSE k \in 1..Len(its) : its[k] = x

\* C24: get_all_items returns a permutation of the stored documents in
\* non-increasing order of date, added_at standing in for the date of a
\* document that has none; documents with equal keys keep their insertion
\* order.
C24_AllItemsNewestFirstStable ==
  last.op = "get_all_items" =>
     /\ Len(last.ret) = Len(items)
     /\ SeqToSet(last.ret) = SeqToSet(items)
     /\ \A i, j \in 1..Len(last.ret) :
           i < j => /\ SortKey(last.ret[i]) >= SortKey(last.ret[j])
                    /\ SortKey(last.ret[i]) = SortKey(last.ret[j])
                         => PositionIn(items, last.ret[i]) < PositionIn(items, last.ret[j])

\* three documents stored oldest first, two of them of one date and one
\* without a date: the listing starts with the undated one
C24_Witness ==
  /\ last.op = "get_all_items"
  /\ Len(items) = 3
  /\ last.ret # items
  /\ last.ret[1].date.kind = "missing"
  /\ SortKey(last.ret[2]) = SortKey(last.ret[3])

\* every CVE named by the stored documents, one entry per naming, scanning
\* the documents in insertion order and each cves list in order
RECURSIVE CveNamings(_)
CveNamings(its) ==
  IF its = <<>> THEN <<>> ELSE Head(its).ext.cves \o CveNamings(Tail(its))

NamingCount(its, cve) == Occurrences(CveNamings(its), cve)

FirstNaming(its, cve) ==
  CHOOSE k \in 1..Len(CveNamings(its)) :
     /\ CveNamings(its)[k] = cve
     /\ \A j \in 1..(k - 1) : CveNamings(its)[j] # cve

\* C26: top_cves of get_stats lists at most 10 CVEs with their occurrence
\* counts, in non-increasing order of count; no CVE left out has a larger
\* count than one listed; CVEs of equal count appear in first-seen order.
C26_TopCvesByCountThenFirstSeen ==
  last.op = "get_stats" =>
     LET top == last.ret.top_cves
         listed == {top[k].elem : k \in 1..Len(top)}
         named == SeqToSet(CveNamings(items))
     IN /\ Len(top) <= 10
        /\ Len(top) = IF Cardinality(named) <= 10 THEN Cardinality(named) ELSE 10
        /\ Cardinality(listed) = Len(top)
        /\ listed \subseteq named
        /\ \A k \in 1..Len(top) : top[k].count = NamingCount(items, top[k].elem)
        /\ \A i, j \in 1..Len(top) :
              i < j => /\ top[i].count >= top[j].count
                       /\ top[i].count = top[j].count
                            => FirstNaming(items, top[i].elem) < FirstNaming(items, top[j].elem)
        /\ \A cve \in named \ listed :
              \A k \in 1..Len(top) : NamingCount(items, cve) <= top[k].count

\* twelve CVEs named, ten listed: one named twice ahead of those named once
C26_Witness ==
  /\ last.op = "get_stats"
  /\ Cardinality(SeqToSet(CveNamings(items))) = 12
  /\ Len(last.ret.top_cves) = 10
  /\ last.ret.top_cves[1].count = 2
  /\ last.ret.top_cves[2].count = 1
  /\ last.ret.top_cves[1].elem # CveNamings(items)[1]

\* C28: after any sequence of add_item, add_items and clear, get_item(d.id)
\* returns d for every stored document d, and get_item of an identifier that
\* no stored document carries returns nothing.
C28_GetItemFindsEveryStoredDocument ==
  last.op = "get_item" =>
     /\ \A k \in 1..Len(items) :
           items[k].id = last.arg => (last.ret.found /\ last.ret.item = items[k])
     /\ (\A k \in 1..Len(items) : items[k].id # last.arg) => ~last.ret.found

\* the stored documents whose text mentions the name
Mentioning(its, name) ==
  LET mentions(i) == MentionedIn(i.content, name) IN SelectSeq(its, mentions)

CountOf(entries, field, name) ==
  IF \E k \in 1..Len(entries) : entries[k][field] = name
  THEN (entries[CHOOSE k \in 1..Len(entries) : entries[k][field] = name]).count
  ELSE 0

\* C29: for every threat name, the count get_all_threats reports and the
\* count get_stats reports both equal the number of stored documents that
\* mention the name; a name of both lists is counted once per document.
C29_ThreatCountIsDocumentCount ==
  \A name \in SeqToSet(MALWARE_FAMILIES) \cup SeqToSet(THREAT_ACTORS) :
     /\ last.op = "get_all_threats" =>
           CountOf(last.ret, "name", name) = Len(Mentioning(items, name))
     /\ last.op = "get_stats" =>
           CountOf(last.ret.top_threats, "elem", name) = Len(Mentioning(items, name))

\* the place of the first occurrence of a digest in the text, in either case
FirstOccurrence(words, value) ==
  CHOOSE k \in 1..Len(words) :
     /\ HashLower(words[k]) = value
     /\ \A j \in 1..(k - 1) : HashLower(words[j]) # value

NoDuplicateHash(hashes) ==
  \A i, j \in 1..Len(hashes) : hashes[i].value = hashes[j].value => i = j

\* C21 as stated: the hashes list of extract_all holds no value twice and is
\* in first-seen order whatever the types: a digest that first occurs earlier
\* in the text stands earlier in the list.
C21_HashesInFirstSeenOrder ==
  last.op = "extract_all" =>
     /\ NoDuplicateHash(last.ret.hashes)
     /\ \A i, j \in 1..Len(last.ret.hashes) :
           FirstOccurrence(last.arg, last.ret.hashes[i].value)
              < FirstOccurrence(last.arg, last.ret.hashes[j].value) => i < j

\* the loops of extract_hashes in their order
TypeRank(type) == CASE type = "sha256" -> 1 [] type = "sha1" -> 2 [] type = "md5" -> 3

\* C21 amended: the hashes list holds no value twice and every digest of the
\* text once; it lists the sha256 digests, then the sha1 digests, then the md5
\* digests, and the digests of one type in first-seen order.
C21_HashesByTypeThenFirstSeen ==
  last.op = "extract_all" =>
     LET hashes == last.ret.hashes
     IN /\ NoDuplicateHash(hashes)
        /\ {hashes[k].value : k \in 1..Len(hashes)}
             = {HashLower(last.arg[k]) : k \in {n \in 1..Len(last.arg) :
                   last.arg[n].hex /\ last.arg[n].len \in {32, 40, 64}}}
        /\ \A i, j \in 1..Len(hashes) :
              i < j => \/ TypeRank(hashes[i].type) < TypeRank(hashes[j].type)
                       \/ /\ hashes[i].type = hashes[j].type
                          /\ FirstOccurrence(last.arg, hashes[i].value)
                               < FirstOccurrence(last.arg, hashes[j].value)

\* a text with an md5 digest, then a sha256 digest, then the md5 digest again
\* in the other case: two entries, the sha256 digest first
C21_Witness ==
  /\ last.op = "extract_all"
  /\ Len(last.arg) = 3
  /\ last.arg[1].len = 32 /\ last.arg[2].len = 64
  /\ last.arg[3] # last.arg[1] /\ HashLower(last.arg[3]) = HashLower(last.arg[1])
  /\ Len(last.ret.hashes) = 2
  /\ last.ret.hashes[1].type = "sha256" /\ last.ret.hashes[2].type = "md5"

====
